---- MODULE Spec2Model ----
(***************************************************************************)
(* A model of the structural source editor of coder-toolbox-mcp-server:    *)
(* the patch engine (src/src/utils/fileEdits.ts) and the locator           *)
(* (utils/javaFileSearch.ts, functions/locateJavaClass.ts).                *)
(*                                                                         *)
(* A JavaScript string is a sequence of one-character strings, so that     *)
(* includes, replace, split, trim and the regular expressions of the code  *)
(* are computed character by character, as the code computes them.         *)
(***************************************************************************)
EXTENDS Integers, Sequences, FiniteSets, TLC

VARIABLES
    universe,   \* the input domain the run draws its texts from
    disk,       \* patch engine: the content of the target file on disk
    calls,      \* patch engine: number of applyFileEdits calls completed
    last,       \* patch engine: the record of the last completed call
    prev,       \* patch engine: the record of the call before the last one
    platform,   \* locator: the path convention of the host, posix or win32
    fs,         \* locator: the project tree, path from the project root -> node
    located,    \* locator: the record of the last locate_java_class call
    created,    \* server: the records of the create_java_class calls, in order
    rewritten,  \* rewrite: the record of the last class_rewrite_full call
    tool,       \* tools: the record of the last call of a class tool
    inflight    \* patch engine: the two calls that run at the same time

patchVars == <<universe, disk, calls, last, prev, inflight>>
locatorVars == <<platform, fs, located, created, rewritten, tool>>
vars == <<universe, disk, calls, last, prev, platform, fs, located, created, rewritten,
         tool, inflight>>

(***************************************************************************)
(* Bounds of the model.                                                    *)
(***************************************************************************)
MaxContentLen == 2
MaxBatchSize == 4
MaxEntries == 2

(***************************************************************************)
(* Characters.                                                             *)
(***************************************************************************)
NL == "\n"
CR == "\r"
SP == " "
TAB == "\t"
DOLLAR == "$"
AMP == "&"
\* The backtick and the apostrophe are written as named atoms: the two
\* characters delimit quoted text in the module language.
TICK == "BACKTICK"
QUOTE == "APOSTROPHE"
SLASH == "/"
BACKSLASH == "\\"
DOT == "."

\* The strings over alphabet A of length at most n.
Str(A, n) == UNION {[1..m -> A] : m \in 0..n}

Max(a, b) == IF a >= b THEN a ELSE b

(***************************************************************************)
(* JavaScript String primitives used by fileEdits.ts.                      *)
(***************************************************************************)

\* s.slice(from - 1, to): the characters from..to of s (1-based, inclusive).
Slice(s, from, to) == [k \in 1..Max(0, to - from + 1) |-> s[from + k - 1]]

\* sub occurs in s at position i (1-based).
OccursAt(s, sub, i) ==
    /\ i >= 1
    /\ i + Len(sub) - 1 <= Len(s)
    /\ \A k \in 1..Len(sub) : s[i + k - 1] = sub[k]

\* The least position of a set of positions, 0 when there is none: where a
\* scan from the start stops.
first(hits) == IF hits = {} THEN 0 ELSE CHOOSE i \in hits : \A h \in hits : i <= h

\* s.indexOf(sub) + 1: the position of the first occurrence, 0 when there is none.
indexOf(s, sub) == first({i \in 1..(Len(s) - Len(sub) + 1) : OccursAt(s, sub, i)})

\* s.includes(sub)
includes(s, sub) == indexOf(s, sub) # 0

\* c.repeat(n)
repeat(c, n) == [k \in 1..n |-> c]

\* ECMAScript GetSubstitution for a string pattern (no capture groups):
\* $$ is a dollar, $& the matched text, $ then backtick the text before the
\* match, $ then apostrophe the text after it; any other $ stands for itself.
RECURSIVE GetSubstitution(_, _, _, _, _)
GetSubstitution(matched, str, position, replacement, i) ==
    IF i > Len(replacement) THEN <<>>
    ELSE IF replacement[i] = DOLLAR /\ i < Len(replacement)
         THEN LET c == replacement[i + 1] IN
              IF c = DOLLAR
              THEN <<DOLLAR>> \o GetSubstitution(matched, str, position, replacement, i + 2)
              ELSE IF c = AMP
              THEN matched \o GetSubstitution(matched, str, position, replacement, i + 2)
              ELSE IF c = TICK
              THEN Slice(str, 1, position - 1)
                   \o GetSubstitution(matched, str, position, replacement, i + 2)
              ELSE IF c = QUOTE
              THEN Slice(str, position + Len(matched), Len(str))
                   \o GetSubstitution(matched, str, position, replacement, i + 2)
              ELSE <<DOLLAR>> \o GetSubstitution(matched, str, position, replacement, i + 1)
         ELSE <<replacement[i]>> \o GetSubstitution(matched, str, position, replacement, i + 1)

\* The string replace builds when the first occurrence of pattern in s is at
\* p (0: none): only that occurrence is replaced, by the expanded replacement.
replaceAt(s, pattern, replacement, p) ==
    IF p = 0 THEN s
    ELSE Slice(s, 1, p - 1)
         \o GetSubstitution(pattern, s, p, replacement, 1)
         \o Slice(s, p + Len(pattern), Len(s))

\* s.replace(pattern, replacement) with a string pattern.
replace(s, pattern, replacement) ==
    replaceAt(s, pattern, replacement, indexOf(s, pattern))

RECURSIVE splitOn(_, _)
\* The pieces of s when the first separator is at p (0: none).
splitAt(s, sep, p) ==
    IF p = 0 THEN <<s>>
    ELSE <<Slice(s, 1, p - 1)>> \o splitOn(Slice(s, p + 1, Len(s)), sep)

\* s.split(sep) for a one-character separator; the empty string has one
\* empty piece.
splitOn(s, sep) == splitAt(s, sep, indexOf(s, <<sep>>))

\* s.split('\n'): the lines of s.
split(s) == splitOn(s, NL)

\* pieces.join(sep) for a one-character separator.
RECURSIVE joinWith(_, _)
joinWith(pieces, sep) ==
    IF Len(pieces) = 0 THEN <<>>
    ELSE IF Len(pieces) = 1 THEN pieces[1]
    ELSE pieces[1] \o <<sep>> \o joinWith(Tail(pieces), sep)

\* lines.join('\n')
join(lines) == joinWith(lines, NL)

\* The characters \s matches and trim() removes, among the characters modelled.
isSpace(c) == c \in {SP, TAB, NL, CR}

\* line.match(/^\s*/)[0]: the leading whitespace of a line.
RECURSIVE leadingWhitespace(_)
leadingWhitespace(s) ==
    IF Len(s) > 0 /\ isSpace(s[1]) THEN <<s[1]>> \o leadingWhitespace(Tail(s)) ELSE <<>>

\* s.trimStart()
trimStart(s) == Slice(s, Len(leadingWhitespace(s)) + 1, Len(s))

\* s.trimEnd()
RECURSIVE trimEnd(_)
trimEnd(s) ==
    IF Len(s) > 0 /\ isSpace(s[Len(s)]) THEN trimEnd(Slice(s, 1, Len(s) - 1)) ELSE s

\* s.trim()
trim(s) == trimEnd(trimStart(s))

(***************************************************************************)
(* fileEdits.ts                                                            *)
(***************************************************************************)

\* Faulty variant of normalizeLineEndings: the text is left as it is.
normalizeLineEndings_skipped(text) == text

\* text.replace(/\r\n/g, '\n')
RECURSIVE normalizeLineEndings(_)
normalizeLineEndings(text) ==
    IF Len(text) = 0 THEN <<>>
    ELSE IF Len(text) >= 2 /\ text[1] = CR /\ text[2] = NL
    THEN <<NL>> \o normalizeLineEndings(Slice(text, 3, Len(text)))
    ELSE <<text[1]>> \o normalizeLineEndings(Tail(text))

\* One window of the Tier 2 scan (lines 53-58): every old line equals the
\* content line at the same offset once both are trimmed. i is 1-based.
isMatch(contentLines, oldLines, i) ==
    \A j \in 1..Len(oldLines) : trim(oldLines[j]) = trim(contentLines[i + j - 1])

\* Faulty variant of firstMatch: the scan keeps the last window that matches.
firstMatch_last(contentLines, oldLines) ==
    IF \E i \in 1..(Len(contentLines) - Len(oldLines) + 1) :
           isMatch(contentLines, oldLines, i)
    THEN CHOOSE i \in 1..(Len(contentLines) - Len(oldLines) + 1) :
           /\ isMatch(contentLines, oldLines, i)
           /\ \A h \in (i + 1)..(Len(contentLines) - Len(oldLines) + 1) :
                 ~isMatch(contentLines, oldLines, h)
    ELSE 0

\* The first i of the scan "for (i = 0; i <= contentLines.length - oldLines.length;
\* i++)" whose window matches, 1-based; 0 when no window matches.
firstMatch(contentLines, oldLines) ==
    first({i \in 1..(Len(contentLines) - Len(oldLines) + 1) :
              isMatch(contentLines, oldLines, i)})

\* Faulty variant of indented: the width of the new indentation is added to
\* the base as it is, the width of the old one is not taken off.
indented_absolute(lines, oldLines, originalIndent, j) ==
    IF j = 1 THEN originalIndent \o trimStart(lines[j])
    ELSE IF /\ j <= Len(oldLines)
            /\ leadingWhitespace(oldLines[j]) # <<>>
            /\ leadingWhitespace(lines[j]) # <<>>
    THEN originalIndent \o repeat(SP, Len(leadingWhitespace(lines[j])))
         \o trimStart(lines[j])
    ELSE lines[j]

\* The callback of normalizedNew.split('\n').map (lines 62-71) on line j of
\* lines, j 1-based.
indented(lines, oldLines, originalIndent, j) ==
    IF j = 1 THEN originalIndent \o trimStart(lines[j])
    ELSE LET oldIndent == IF j <= Len(oldLines)
                          THEN leadingWhitespace(oldLines[j]) ELSE <<>>
             newIndent == leadingWhitespace(lines[j])
         IN IF oldIndent # <<>> /\ newIndent # <<>>
            THEN originalIndent
                 \o repeat(SP, Max(0, Len(newIndent) - Len(oldIndent)))
                 \o trimStart(lines[j])
            ELSE lines[j]

\* lines.map of that callback.
map(lines, oldLines, originalIndent) ==
    [j \in 1..Len(lines) |-> indented(lines, oldLines, originalIndent, j)]

\* The replacement lines of a Tier 2 match (lines 61-71).
newLines(normalizedNew, oldLines, originalIndent) ==
    map(split(normalizedNew), oldLines, originalIndent)

\* contentLines.splice(i, count, ...lines), i 1-based.
splice(contentLines, i, count, lines) ==
    SubSeq(contentLines, 1, i - 1) \o lines
    \o SubSeq(contentLines, i + count, Len(contentLines))

\* Tier 1 (lines 43-46): the literal replacement.
tier1(modifiedContent, normalizedOld, normalizedNew) ==
    [matched |-> TRUE, tier |-> 1,
     content |-> replace(modifiedContent, normalizedOld, normalizedNew)]

\* Faulty variant of noMatch: an edit that matches nowhere is skipped, not thrown.
noMatch_skipped(modifiedContent, normalizedOld) ==
    [matched |-> TRUE, tier |-> 0, content |-> modifiedContent]

\* No window matched (lines 80-82): the edit throws.
noMatch(modifiedContent, normalizedOld) ==
    [matched |-> FALSE, tier |-> 0, content |-> modifiedContent]

\* The body of "if (isMatch)" for the window at i (lines 61-76), i 1-based.
replaceWindow(contentLines, oldLines, normalizedNew, i) ==
    [matched |-> TRUE, tier |-> 2,
     content |-> join(splice(contentLines, i, Len(oldLines),
                             newLines(normalizedNew, oldLines,
                                      leadingWhitespace(contentLines[i]))))]

\* The scan over the windows (lines 52-82) once it stopped at i, or at no window.
scan(modifiedContent, normalizedOld, normalizedNew, contentLines, oldLines, i) ==
    IF i = 0 THEN noMatch(modifiedContent, normalizedOld)
    ELSE replaceWindow(contentLines, oldLines, normalizedNew, i)

\* Tier 2 on the lines of the old text and of the content (lines 49-82).
tier2Lines(modifiedContent, normalizedOld, normalizedNew, contentLines, oldLines) ==
    scan(modifiedContent, normalizedOld, normalizedNew, contentLines, oldLines,
         firstMatch(contentLines, oldLines))

\* Tier 2 (lines 48-82): the whitespace-tolerant line-window replacement.
tier2(modifiedContent, normalizedOld, normalizedNew) ==
    tier2Lines(modifiedContent, normalizedOld, normalizedNew,
               split(modifiedContent), split(normalizedOld))

\* Faulty variant of applyEdit: the line-window match is tried before the literal one.
applyEdit_fuzzyFirst(modifiedContent, edit) ==
    LET normalizedOld == normalizeLineEndings(edit.oldText)
        normalizedNew == normalizeLineEndings(edit.newText)
        fuzzy == tier2(modifiedContent, normalizedOld, normalizedNew)
    IN IF fuzzy.matched THEN fuzzy
       ELSE IF includes(modifiedContent, normalizedOld)
       THEN tier1(modifiedContent, normalizedOld, normalizedNew)
       ELSE fuzzy

\* One iteration of the loop over the edits (lines 39-83).
applyEdit(modifiedContent, edit) ==
    LET normalizedOld == normalizeLineEndings(edit.oldText)
        normalizedNew == normalizeLineEndings(edit.newText)
    IN IF includes(modifiedContent, normalizedOld)
       THEN tier1(modifiedContent, normalizedOld, normalizedNew)
       ELSE tier2(modifiedContent, normalizedOld, normalizedNew)

RECURSIVE editLoop(_, _, _, _, _)
\* The loop after edit k of a faulty variant gave r.
loopStep_continued(modifiedContent, edits, k, tiers, inputs, r) ==
    IF r.matched
    THEN editLoop(r.content, edits, k + 1,
                  Append(tiers, r.tier), Append(inputs, modifiedContent))
    ELSE [threw |-> TRUE, content |-> modifiedContent,
          tiers |-> Append(tiers, r.tier), inputs |-> Append(inputs, modifiedContent)]

\* Faulty variant of loopStep: every edit is matched against, and applied to,
\* the content the file was read with, not the working content.
loopStep_original(modifiedContent, edits, k, tiers, inputs, r) ==
    loopStep_continued(modifiedContent, edits, k, tiers, inputs,
                       applyEdit(IF inputs = <<>> THEN modifiedContent ELSE inputs[1],
                                 edits[k]))

\* The loop after edit k gave r: on to edit k + 1, or the throw of lines 80-82.
loopStep(modifiedContent, edits, k, tiers, inputs, r) ==
    IF r.matched
    THEN editLoop(r.content, edits, k + 1,
                  Append(tiers, r.tier), Append(inputs, modifiedContent))
    ELSE [threw |-> TRUE, content |-> modifiedContent,
          tiers |-> Append(tiers, r.tier), inputs |-> Append(inputs, modifiedContent)]

\* The loop "for (const edit of edits)" from edit k on: the working content,
\* the tier each edit matched by, the working content each edit was matched
\* against, and whether an edit threw.
editLoop(modifiedContent, edits, k, tiers, inputs) ==
    IF k > Len(edits)
    THEN [threw |-> FALSE, content |-> modifiedContent, tiers |-> tiers, inputs |-> inputs]
    ELSE loopStep(modifiedContent, edits, k, tiers, inputs,
                   applyEdit(modifiedContent, edits[k]))

\* The number of leading lines two line lists share.
RECURSIVE commonPrefix(_, _)
commonPrefix(a, b) ==
    IF Len(a) > 0 /\ Len(b) > 0 /\ a[1] = b[1]
    THEN 1 + commonPrefix(Tail(a), Tail(b)) ELSE 0

\* The number of trailing lines two line lists share.
RECURSIVE commonSuffix(_, _)
commonSuffix(a, b) ==
    IF Len(a) > 0 /\ Len(b) > 0 /\ a[Len(a)] = b[Len(b)]
    THEN 1 + commonSuffix(SubSeq(a, 1, Len(a) - 1), SubSeq(b, 1, Len(b) - 1)) ELSE 0

\* The lines of a hunk: each line after its tag, ended by a newline.
RECURSIVE tagged(_, _)
tagged(tag, lines) ==
    IF Len(lines) = 0 THEN <<>>
    ELSE <<tag>> \o lines[1] \o <<NL>> \o tagged(tag, Tail(lines))

\* The two header lines of a patch; the file name is written f.
patchHeader == <<"-", "-", "-", SP, "f", NL, "+", "+", "+", SP, "f", NL>>

\* The hunk marker line.
hunkHeader == <<"@", "@", NL>>

\* The hunk of line lists a and b that share their first p and their last s
\* lines: the shared leading lines, the removed lines, the added lines and the
\* shared trailing lines.
hunk(a, b, p, s) ==
    tagged(SP, SubSeq(a, 1, p))
    \o tagged("-", SubSeq(a, p + 1, Len(a) - s))
    \o tagged("+", SubSeq(b, p + 1, Len(b) - s))
    \o tagged(SP, SubSeq(a, Len(a) - s + 1, Len(a)))

\* The hunk of line lists a and b that share their first p lines.
hunkAfter(a, b, p) ==
    hunk(a, b, p, commonSuffix(SubSeq(a, p + 1, Len(a)), SubSeq(b, p + 1, Len(b))))

\* The hunk of line lists a and b.
hunkOf(a, b) == hunkAfter(a, b, commonPrefix(a, b))

\* createTwoFilesPatch of the diff package, as fileEdits.ts uses it: the header,
\* and, when the two texts differ, one hunk. Line numbers are left out of the
\* hunk marker.
createTwoFilesPatch(oldStr, newStr) ==
    IF oldStr = newStr THEN patchHeader
    ELSE patchHeader \o hunkHeader \o hunkOf(split(oldStr), split(newStr))

\* createUnifiedDiff (lines 14-26): both texts are normalized again.
createUnifiedDiff(originalContent, newContent) ==
    createTwoFilesPatch(normalizeLineEndings(originalContent),
                        normalizeLineEndings(newContent))

\* The fence starts at three backticks (line 87).
InitialBackticks == 3

\* The while loop of lines 88-90: one more backtick as long as the diff
\* includes a run of numBackticks backticks.
RECURSIVE growBackticks(_, _)
growBackticks(diff, n) ==
    IF includes(diff, repeat(TICK, n)) THEN growBackticks(diff, n + 1) ELSE n

\* Faulty variant of numBackticks: the fence never grows.
numBackticks_fixed(diff) == InitialBackticks

\* The fence length chosen for a diff (lines 87-90).
numBackticks(diff) == growBackticks(diff, InitialBackticks)

\* The diff between fences of n backticks (line 91).
fenced(diff, n) ==
    repeat(TICK, n) \o <<"d", "i", "f", "f", NL>> \o diff \o repeat(TICK, n) \o <<NL, NL>>

\* The fenced block (lines 87-91).
formattedDiff(diff) == fenced(diff, numBackticks(diff))

\* Faulty variant of persist: the write is made whatever dryRun says.
persist_always(dryRun, onDisk, modifiedContent) == modifiedContent

\* Faulty variant of persist: the test of dryRun is inverted.
persist_inverted(dryRun, onDisk, modifiedContent) ==
    IF dryRun THEN modifiedContent ELSE onDisk

\* The file after the write-back step (lines 93-95).
persist(dryRun, onDisk, modifiedContent) ==
    IF ~dryRun THEN modifiedContent ELSE onDisk

\* The call once the loop over the edits ended as loop: the throw, or the diff,
\* the write-back and the return (lines 84-97).
afterLoop(onDisk, dryRun, content, loop) ==
    IF loop.threw
    THEN [threw |-> TRUE, returned |-> <<>>, disk |-> onDisk,
          modified |-> loop.content, tiers |-> loop.tiers, inputs |-> loop.inputs]
    ELSE [threw |-> FALSE,
          returned |-> formattedDiff(createUnifiedDiff(content, loop.content)),
          disk |-> persist(dryRun, onDisk, loop.content),
          modified |-> loop.content, tiers |-> loop.tiers, inputs |-> loop.inputs]

\* The call from the normalized content on (lines 38-97).
applyToContent(onDisk, edits, dryRun, content) ==
    afterLoop(onDisk, dryRun, content, editLoop(content, edits, 1, <<>>, <<>>))

\* applyFileEdits (lines 31-98) on a file holding onDisk: whether it threw, what
\* it returned, and what the file holds afterwards.
applyFileEdits(onDisk, edits, dryRun) ==
    applyToContent(onDisk, edits, dryRun, normalizeLineEndings(onDisk))

(***************************************************************************)
(* The inputs of the patch engine.  A run draws the file content and the   *)
(* edit texts from one input domain: all strings over a three-character    *)
(* alphabet within the bounds, the texts of the two scenarios of the       *)
(* specification, or indented blocks of lines.                             *)
(***************************************************************************)
ExactContent ==
    <<"c", "l", "a", "s", "s", SP, "A", SP, "{", SP, "i", "n", "t", SP, "x", ";", SP,
      "}">>

ExactOld ==
    <<"i", "n", "t", SP, "x", ";">>

ExactNew ==
    <<"i", "n", "t", SP, "x", ",", SP, "y", ";">>

FuzzyContent ==
    <<SP, SP, "v", "o", "i", "d", SP, "f", "(", ")", SP, "{", NL, SP, SP, SP, SP,
      "r", "e", "t", "u", "r", "n", SP, "1", ";", NL, SP, SP, "}">>

FuzzyOld ==
    <<"v", "o", "i", "d", SP, "f", "(", ")", SP, "{", NL, "r", "e", "t", "u", "r",
      "n", SP, "1", ";", NL, "}">>

FuzzyNew ==
    <<"v", "o", "i", "d", SP, "f", "(", ")", SP, "{", NL, "r", "e", "t", "u", "r",
      "n", SP, "2", ";", NL, "}">>

Alphabets ==
    [ws   |-> {"a", SP, NL},
     cr   |-> {"a", CR, NL},
     sub  |-> {DOLLAR, AMP},
     tick |-> {"a", TICK}]

\* The texts of the indentation runs: blocks of two or three lines, each line
\* a letter behind no, one, two or three characters of indentation.
OldLinePool == {<<"a">>, <<SP, "a">>, <<SP, SP, "a">>}
NewLinePool == {<<"c">>, <<SP, "c">>, <<SP, SP, SP, "c">>, <<TAB, "c">>}

IndentContents ==
    {l1 \o <<NL>> \o l2 : l1, l2 \in OldLinePool}
    \cup {<<"b", NL>> \o l1 \o <<NL>> \o l2 : l1, l2 \in OldLinePool}

IndentEdits ==
    [oldText : {l1 \o <<NL>> \o l2 : l1, l2 \in OldLinePool},
     newText : {l1 \o <<NL>> \o l2 : l1, l2 \in NewLinePool}
               \cup {<<"c", NL>> \o l1 \o <<NL>> \o l2 : l1, l2 \in NewLinePool}]

Universes == DOMAIN Alphabets \cup {"scenario", "indent"}

\* The size of an edit: one, plus the characters of its two texts.
editSize(e) == 1 + Len(e.oldText) + Len(e.newText)

\* The edits over alphabet A of size at most n.
EditsOver(A, n) ==
    UNION {{[oldText |-> o, newText |-> w] : w \in Str(A, n - 1 - Len(o))} :
            o \in Str(A, n - 1)}

\* The batches of edits over A whose sizes add up to at most n.
RECURSIVE BatchesOver(_, _)
BatchesOver(A, n) ==
    IF n <= 0 THEN {<<>>}
    ELSE {<<>>} \cup
         UNION {{<<e>> \o b : b \in BatchesOver(A, n - editSize(e))} :
                 e \in EditsOver(A, n)}

ScenarioEdits ==
    {[oldText |-> ExactOld, newText |-> ExactNew],
     [oldText |-> FuzzyOld, newText |-> FuzzyNew]}

Contents ==
    [u \in Universes |->
        IF u = "scenario" THEN {ExactContent, FuzzyContent}
        ELSE IF u = "indent" THEN IndentContents
        ELSE Str(Alphabets[u], MaxContentLen)]

Batches ==
    [u \in Universes |->
        IF u = "scenario" THEN UNION {[1..m -> ScenarioEdits] : m \in 0..2}
        ELSE IF u = "indent" THEN UNION {[1..m -> IndentEdits] : m \in 0..1}
        ELSE BatchesOver(Alphabets[u], MaxBatchSize)]

(***************************************************************************)
(* The patch engine as a state machine: one applyFileEdits call at a time  *)
(* on one file.                                                            *)
(***************************************************************************)
NoCall == [made |-> FALSE]

\* The locator at rest: a project directory with nothing in it, no call made.
EmptyTree == [q \in {<<>>} |-> [kind |-> "dir", readable |-> TRUE, content |-> <<>>]]
NoLocate == [made |-> FALSE]
NoRewrite == [made |-> FALSE]
NoTool == [made |-> FALSE]

\* A call that has not begun, and two of them.
Idle == [pc |-> "idle", edits |-> <<>>, content |-> <<>>, seen |-> 0, done |-> 0]
NoCalls == [c \in 1..2 |-> Idle]

\* What a completed call leaves in last: its arguments, the file before it,
\* and its outcome.
CallRecord(edits, dryRun, before, r) ==
    [made |-> TRUE, edits |-> edits, dryRun |-> dryRun, before |-> before,
     threw |-> r.threw, returned |-> r.returned, modified |-> r.modified,
     tiers |-> r.tiers, inputs |-> r.inputs]

Init ==
    /\ universe \in Universes
    /\ disk \in Contents[universe]
    /\ calls = 0
    /\ last = NoCall
    /\ prev = NoCall
    /\ platform = "posix"
    /\ fs = EmptyTree
    /\ located = NoLocate
    /\ created = <<>>
    /\ rewritten = NoRewrite
    /\ tool = NoTool
    /\ inflight = NoCalls

\* A call completes with outcome r.
Completes(edits, dryRun, r) ==
    /\ disk' = r.disk
    /\ last' = CallRecord(edits, dryRun, disk, r)
    /\ prev' = last
    /\ calls' = calls + 1
    /\ UNCHANGED <<universe, inflight, locatorVars>>

\* A call with any batch, dry run or not, on a file no call has touched.
ApplyFileEdits(edits, dryRun) ==
    Completes(edits, dryRun, applyFileEdits(disk, edits, dryRun))

\* The call that follows a preview: the batch of the dry run just made, run
\* again with dryRun = false.
ApplyPreviewed ==
    /\ last.made
    /\ last.dryRun
    /\ Completes(last.edits, FALSE, applyFileEdits(disk, last.edits, FALSE))

Next ==
    \/ /\ calls = 0
       /\ \E edits \in Batches[universe], dryRun \in BOOLEAN :
             ApplyFileEdits(edits, dryRun)
    \/ ApplyPreviewed

Spec == Init /\ [][Next]_vars

(***************************************************************************)
(* Properties of the patch engine.                                         *)
(***************************************************************************)

\* The working content edit k of the last call left behind.
AfterEdit(k) ==
    IF k < Len(last.inputs) THEN last.inputs[k + 1] ELSE last.modified

\* Either tier matches oldText against the working content c.
EitherTierMatches(c, oldText) ==
    LET o == normalizeLineEndings(oldText) IN
    \/ includes(c, o)
    \/ \E i \in 1..(Len(split(c)) - Len(split(o)) + 1) : isMatch(split(c), split(o), i)

\* The line (1-based) that holds position p of c.
LineOf(c, p) == 1 + Cardinality({q \in 1..(p - 1) : c[q] = NL})

\* C1: a call with dryRun = true leaves the file on disk as it was before the
\* call, whether the call returned a diff or threw.
C1_DryRunLeavesFile ==
    (last.made /\ last.dryRun) => disk = last.before

\* C1 witness: a dry run returned a diff whose edits changed the content.
C1_Witness ==
    /\ last.made /\ last.dryRun /\ ~last.threw
    /\ last.modified # normalizeLineEndings(last.before)

\* C2: when some edit of a non-dry-run call matches neither tier against the
\* working content the edits before it produced, the call fails and the file
\* on disk is what it was before the call.
C2_AllOrNothing ==
    (/\ last.made /\ ~last.dryRun
     /\ \E k \in 1..Len(last.inputs) :
            ~EitherTierMatches(last.inputs[k], last.edits[k].oldText))
    => (last.threw /\ disk = last.before)

\* C2 witness: the second edit of a batch failed after the first one had
\* changed the working content.
C2_Witness ==
    /\ last.made /\ ~last.dryRun /\ last.threw
    /\ Len(last.inputs) >= 2
    /\ last.modified # normalizeLineEndings(last.before)

\* C3: whenever the working content holds the normalized oldText literally, the
\* edit is made by Tier 1 at the first literal occurrence: the text before it
\* and the text after it are kept, and Tier 2 plays no part.
C3_ExactMatchPrecedence ==
    last.made =>
    \A k \in 1..Len(last.inputs) :
        LET c == last.inputs[k]
            o == normalizeLineEndings(last.edits[k].oldText)
            p == indexOf(c, o)
            rest == Len(c) - (p + Len(o)) + 1
            after == AfterEdit(k)
        IN p # 0 =>
           /\ last.tiers[k] = 1
           /\ Len(after) >= p - 1 + rest
           /\ Slice(after, 1, p - 1) = Slice(c, 1, p - 1)
           /\ Slice(after, Len(after) - rest + 1, Len(after)) = Slice(c, p + Len(o), Len(c))

\* C3 witness: an edit whose oldText occurs literally while a trimmed-line
\* window matches at an earlier line, and whose replacement changed the content.
C3_Witness ==
    /\ last.made
    /\ \E k \in 1..Len(last.inputs) :
        LET c == last.inputs[k]
            o == normalizeLineEndings(last.edits[k].oldText)
            w == firstMatch(split(c), split(o))
        IN /\ indexOf(c, o) # 0
           /\ w # 0
           /\ w < LineOf(c, indexOf(c, o))
           /\ AfterEdit(k) # c

\* The replacement C4 describes: the first occurrence replaced by newText itself.
replaceLiteral(c, o, n) ==
    LET p == indexOf(c, o) IN
    Slice(c, 1, p - 1) \o n \o Slice(c, p + Len(o), Len(c))

\* C4: after an edit whose oldText o occurs in the working content c with first
\* occurrence at p, the working content is c[0..p) + newText + c[p+len(o)..].
C4_Tier1InsertsNewText ==
    last.made =>
    \A k \in 1..Len(last.inputs) :
        LET c == last.inputs[k]
            o == normalizeLineEndings(last.edits[k].oldText)
            n == normalizeLineEndings(last.edits[k].newText)
        IN indexOf(c, o) # 0 => AfterEdit(k) = replaceLiteral(c, o, n)

FuzzyExpected ==
    <<SP, SP, "v", "o", "i", "d", SP, "f", "(", ")", SP, "{", NL, SP, SP, SP, SP,
      "r", "e", "t", "u", "r", "n", SP, "2", ";", NL, SP, SP, "}">>

\* C5: the fuzzy indentation scenario: the unindented three-line oldText matches
\* the indented block by Tier 2 and the written block keeps the 2-space and
\* 4-space indentation of every line, with 1 changed to 2.
C5_FuzzyIndentationScenario ==
    (/\ last.made /\ ~last.dryRun
     /\ last.before = FuzzyContent
     /\ last.edits = <<[oldText |-> FuzzyOld, newText |-> FuzzyNew]>>)
    => (~last.threw /\ last.tiers = <<2>> /\ disk = FuzzyExpected)

\* The number of backticks s starts with.
RECURSIVE LeadingTicks(_)
LeadingTicks(s) ==
    IF Len(s) > 0 /\ s[1] = TICK THEN 1 + LeadingTicks(Tail(s)) ELSE 0

\* The number of backticks s ends with.
RECURSIVE TrailingTicks(_)
TrailingTicks(s) ==
    IF Len(s) > 0 /\ s[Len(s)] = TICK THEN 1 + TrailingTicks(SubSeq(s, 1, Len(s) - 1)) ELSE 0

\* The length of the longest run of consecutive backticks in s.
LongestRun(s) ==
    LET runs == {n \in 0..Len(s) :
                    \E i \in 1..(Len(s) - n + 1) : \A k \in 0..(n - 1) : s[i + k] = TICK}
    IN CHOOSE n \in runs : \A m \in runs : m <= n

\* The fence a returned block opens with, the fence it closes with (before the
\* two final newlines), and the diff between the info line and the closing fence.
OpeningFence(returned) == LeadingTicks(returned)
ClosingFence(returned) == TrailingTicks(SubSeq(returned, 1, Len(returned) - 2))
DiffBody(returned) ==
    SubSeq(returned, OpeningFence(returned) + 6,
           Len(returned) - 2 - ClosingFence(returned))

\* C6: the opening and the closing fence of a returned block are equally long
\* and longer than the longest run of backticks in the diff between them.
C6_FenceSafety ==
    (last.made /\ ~last.threw) =>
        /\ OpeningFence(last.returned) = ClosingFence(last.returned)
        /\ OpeningFence(last.returned) >= LongestRun(DiffBody(last.returned)) + 1

\* C6 witness: a returned diff that holds a run of three or more backticks.
C6_Witness ==
    /\ last.made /\ ~last.threw
    /\ LongestRun(DiffBody(last.returned)) >= InitialBackticks

\* The lines of a hunk that are kept or added, without their tags.
RECURSIVE KeptOrAdded(_)
KeptOrAdded(lines) ==
    IF Len(lines) = 0 THEN <<>>
    ELSE IF Len(lines[1]) > 0 /\ lines[1][1] \in {SP, "+"}
    THEN <<Tail(lines[1])>> \o KeptOrAdded(Tail(lines))
    ELSE KeptOrAdded(Tail(lines))

\* The original as the diff is computed from it: the file as read (line 36),
\* normalized again by createUnifiedDiff (line 15).
diffOriginal(before) == normalizeLineEndings(normalizeLineEndings(before))

\* The content a returned block describes as the result: the kept and added
\* lines of its hunk; the original the diff was computed from, when the diff
\* has no hunk.
Described(returned, before) ==
    LET lines == split(DiffBody(returned)) IN
    IF Len(lines) <= 3 THEN diffOriginal(before)
    ELSE join(KeptOrAdded(SubSeq(lines, 4, Len(lines) - 1)))

\* C7 as claimed: the non-dry-run call that follows a dry run of the same batch
\* returns the same fenced diff (or fails as the dry run did), and the content
\* it writes is exactly the content the dry-run diff describes.
C7_DryRunAgreesExactly ==
    (prev.made /\ prev.dryRun /\ last.made /\ ~last.dryRun /\ last.edits = prev.edits)
    => /\ last.threw = prev.threw
       /\ last.returned = prev.returned
       /\ ~last.threw => disk = Described(prev.returned, prev.before)

\* C7 as amended: as above, the content written being the content the dry-run
\* diff describes once its line endings are normalized.
C7_DryRunAgrees ==
    (prev.made /\ prev.dryRun /\ last.made /\ ~last.dryRun /\ last.edits = prev.edits)
    => /\ last.threw = prev.threw
       /\ last.returned = prev.returned
       /\ ~last.threw => normalizeLineEndings(disk) = Described(prev.returned, prev.before)

\* C7 witness: the run after a dry run wrote a changed file.
C7_Witness ==
    /\ prev.made /\ prev.dryRun /\ last.made /\ ~last.dryRun
    /\ ~last.threw
    /\ disk # last.before
    /\ Len(last.edits) >= 2

(***************************************************************************)
(* The locator: utils/javaFileSearch.ts and functions/locateJavaClass.ts.  *)
(*                                                                         *)
(* A directory or file is named by its path from the project root, the     *)
(* sequence of its entry names.  The code handles paths as strings: the    *)
(* strings are built with the separator of the host and read back as       *)
(* path.join reads them.                                                   *)
(***************************************************************************)
SRC == <<"s", "r", "c">>
MAIN == <<"m", "a", "i", "n">>
TEST == <<"t", "e", "s", "t">>
JAVA == <<"j", "a", "v", "a">>
JavaExt == <<DOT, "j", "a", "v", "a">>

\* path.sep
sep(plat) == IF plat = "win32" THEN BACKSLASH ELSE SLASH

\* The project root the server was started with, an absolute path.
projectPath(plat) ==
    IF plat = "win32" THEN <<"C", ":", BACKSLASH, "w">> ELSE <<SLASH, "w">>

\* path.join(projectPath, ...names): the absolute path string of a path.
pathJoin(plat, names) ==
    IF Len(names) = 0 THEN projectPath(plat)
    ELSE projectPath(plat) \o <<sep(plat)>> \o joinWith(names, sep(plat))

\* path.relative(projectPath, fullPath) for a fullPath below the project root.
pathRelative(plat, names) == joinWith(names, sep(plat))

\* relativePath.replace(/\\/g, '/') (line 31).
forwardSlashes(str) ==
    [k \in 1..Len(str) |-> IF str[k] = BACKSLASH THEN SLASH ELSE str[k]]

\* The path that path.join(projectPath, filepath) names, as the callers of the
\* locator compute it: posix splits at / only, win32 at / and \.
resolveUnderProject(plat, filepath) ==
    LET pieces == IF plat = "win32" THEN splitOn(forwardSlashes(filepath), SLASH)
                  ELSE splitOn(filepath, SLASH)
    IN SelectSeq(pieces, LAMBDA piece : Len(piece) > 0)

\* getJavaRootPath (part_001 lines 46-62); sourceType "undefined" and
\* packagePath <<>> stand for an absent argument.
getJavaRootPath(sourceType, packagePath) ==
    LET searchPath == IF sourceType = "test" THEN <<SRC, TEST, JAVA>>
                      ELSE IF sourceType = "source" THEN <<SRC, MAIN, JAVA>>
                      ELSE <<SRC>>
    IN IF packagePath # <<>>
       THEN IF sourceType = "undefined"
            THEN [threw |-> TRUE, path |-> <<>>]
            ELSE [threw |-> FALSE, path |-> searchPath \o splitOn(packagePath, DOT)]
       ELSE [threw |-> FALSE, path |-> searchPath]

Lower ==
    {"a", "b", "c", "d", "e", "f", "g", "h", "i", "j", "k", "l", "m",
     "n", "o", "p", "q", "r", "s", "t", "u", "v", "w", "x", "y", "z"}

Digit == {"0", "1", "2", "3", "4", "5", "6", "7", "8", "9"}

\* One dotted segment of packagePath: [a-z][a-z0-9_]*
isPackageSegment(segment) ==
    /\ Len(segment) >= 1
    /\ segment[1] \in Lower
    /\ \A k \in 2..Len(segment) : segment[k] \in Lower \cup Digit \cup {"_"}

\* ClassLocationSchema (part_000 lines 11-22) accepts the arguments.
ClassLocationSchema(args) ==
    /\ Len(args.className) >= 1
    /\ args.sourceType \in {"undefined", "source", "test"}
    /\ \/ args.packagePath = <<>>
       \/ \A k \in 1..Len(splitOn(args.packagePath, DOT)) :
             isPackageSegment(splitOn(args.packagePath, DOT)[k])

\* The names of the entries of directory dirPath.
children(tree, dirPath) ==
    {q[Len(q)] : q \in {q \in DOMAIN tree :
                          /\ Len(q) = Len(dirPath) + 1
                          /\ SubSeq(q, 1, Len(dirPath)) = dirPath}}

\* return {found: false, filepath: dirPath} (line 40).
notFound(plat, dirPath) ==
    [threw |-> FALSE, result |-> [found |-> FALSE, filepath |-> pathJoin(plat, dirPath)]]

\* Faulty variant of caught: the error of a listing is thrown on.
caught_rethrown(plat, dirPath) == [threw |-> TRUE, result |-> [found |-> FALSE]]

\* catch (error) { console.error(...) } and the return after it (lines 37-40).
caught(plat, dirPath) == notFound(plat, dirPath)

\* return {found: true, filepath, content} (lines 27-33).
foundFile(tree, plat, fullPath) ==
    [threw |-> FALSE,
     result |-> [found |-> TRUE,
                 filepath |-> forwardSlashes(pathRelative(plat, fullPath)),
                 content |-> tree[fullPath].content]]

\* Faulty variant of endsSearch: the result of the first subdirectory is
\* returned whether it found the file or not.
endsSearch_always(result) == TRUE

\* if (result.found) return result (lines 22-23): the result of a subdirectory
\* ends the search only when it found the file.
endsSearch(result) == result.found

\* Faulty variant of searchFrom: a directory is looked through for the file
\* before any of its subdirectories is entered.
RECURSIVE searchFrom_filesFirst(_, _, _, _, _, _)
searchFrom_filesFirst(tree, plat, order, dirPath, k, className) ==
    IF dirPath \notin DOMAIN tree \/ tree[dirPath].kind # "dir" \/ ~tree[dirPath].readable
    THEN caught(plat, dirPath)
    ELSE IF /\ Append(dirPath, className \o JavaExt) \in DOMAIN tree
            /\ tree[Append(dirPath, className \o JavaExt)].kind = "file"
    THEN foundFile(tree, plat, Append(dirPath, className \o JavaExt))
    ELSE IF k > Len(order[dirPath]) THEN notFound(plat, dirPath)
    ELSE IF tree[Append(dirPath, order[dirPath][k])].kind = "dir"
            /\ searchFrom_filesFirst(tree, plat, order, Append(dirPath, order[dirPath][k]),
                                     1, className).result.found
    THEN searchFrom_filesFirst(tree, plat, order, Append(dirPath, order[dirPath][k]),
                               1, className)
    ELSE searchFrom_filesFirst(tree, plat, order, dirPath, k + 1, className)

\* searchInDirectory (lines 13-41) from entry k of the listing of dirPath;
\* order[dirPath] is the listing fs.readdir returns.
RECURSIVE searchFrom(_, _, _, _, _, _)
searchFrom(tree, plat, order, dirPath, k, className) ==
    IF dirPath \notin DOMAIN tree \/ tree[dirPath].kind # "dir" \/ ~tree[dirPath].readable
    THEN caught(plat, dirPath)
    ELSE IF k > Len(order[dirPath]) THEN notFound(plat, dirPath)
    ELSE LET name == order[dirPath][k]
             fullPath == Append(dirPath, name)
         IN IF tree[fullPath].kind = "dir"
            THEN LET result == searchFrom(tree, plat, order, fullPath, 1, className) IN
                 IF result.threw THEN caught(plat, dirPath)
                 ELSE IF endsSearch(result.result) THEN result
                 ELSE searchFrom(tree, plat, order, dirPath, k + 1, className)
            ELSE IF tree[fullPath].kind = "file" /\ name = className \o JavaExt
            THEN foundFile(tree, plat, fullPath)
            ELSE searchFrom(tree, plat, order, dirPath, k + 1, className)

searchInDirectory(tree, plat, order, dirPath, className) ==
    searchFrom(tree, plat, order, dirPath, 1, className)

\* The file-system calls searchInDirectory makes, in the order it makes them:
\* fs.readdir (line 15) of a directory and fs.readFile (line 27) of a file.
readdirCall(dirPath) == [op |-> "readdir", path |-> dirPath]
readFileCall(fullPath) == [op |-> "readFile", path |-> fullPath]

\* The calls end with the read of a file: the search returned found = true.
endsFound(calls_) == calls_ # <<>> /\ calls_[Len(calls_)].op = "readFile"

\* The calls of searchInDirectory(dirPath) from entry k of its listing on.
RECURSIVE callsFrom(_, _, _, _, _)
callsAfterSub(tree, order, dirPath, k, className, sub) ==
    IF endsFound(sub) THEN sub
    ELSE sub \o callsFrom(tree, order, dirPath, k + 1, className)

callsFrom(tree, order, dirPath, k, className) ==
    IF dirPath \notin DOMAIN tree \/ tree[dirPath].kind # "dir" \/ ~tree[dirPath].readable
    THEN <<>>
    ELSE IF k > Len(order[dirPath]) THEN <<>>
    ELSE IF tree[Append(dirPath, order[dirPath][k])].kind = "dir"
    THEN callsAfterSub(tree, order, dirPath, k, className,
             <<readdirCall(Append(dirPath, order[dirPath][k]))>>
             \o callsFrom(tree, order, Append(dirPath, order[dirPath][k]), 1, className))
    ELSE IF tree[Append(dirPath, order[dirPath][k])].kind = "file"
            /\ order[dirPath][k] = className \o JavaExt
    THEN <<readFileCall(Append(dirPath, order[dirPath][k]))>>
    ELSE callsFrom(tree, order, dirPath, k + 1, className)

\* The calls of searchInDirectory(dirPath, className, projectPath).
searchCalls(tree, order, dirPath, className) ==
    <<readdirCall(dirPath)>> \o callsFrom(tree, order, dirPath, 1, className)

\* handleLocateJavaClass (part_000 lines 32-66): it throws, or returns the
\* object it serializes.
handleLocateJavaClass(tree, plat, order, args) ==
    IF ~ClassLocationSchema(args) THEN [threw |-> TRUE, code |-> "InvalidRequest"]
    ELSE LET root == getJavaRootPath(args.sourceType, args.packagePath) IN
         IF root.threw THEN [threw |-> TRUE, code |-> "InternalError"]
         ELSE IF root.path \notin DOMAIN tree
         THEN [threw |-> FALSE,
               json |-> [found |-> FALSE, searchPath |-> pathJoin(plat, root.path)]]
         ELSE LET r == searchInDirectory(tree, plat, order, root.path, args.className) IN
              IF r.threw THEN [threw |-> TRUE, code |-> "InternalError"]
              ELSE [threw |-> FALSE, json |-> r.result]

(***************************************************************************)
(* The project trees of the model: up to MaxEntries features, each a       *)
(* regular file, a non-regular entry, a directory or a directory that      *)
(* cannot be listed, placed in the directories the locator resolves or in  *)
(* a directory whose name holds a backslash (a legal name on posix only).  *)
(***************************************************************************)
PKG == <<"p">>
ODD == <<"r", BACKSLASH, "r">>
ClassA == <<"A">>
ClassB == <<"B">>

DirPool(plat) ==
    {<<SRC>>, <<SRC, MAIN, JAVA>>, <<SRC, TEST, JAVA>>, <<SRC, MAIN, JAVA, PKG>>}
    \cup (IF plat = "posix" THEN {<<SRC, ODD>>} ELSE {})

FeaturePool(plat) ==
    [t : {"file"}, dir : DirPool(plat), name : {ClassA \o JavaExt, ClassB \o JavaExt}]
    \cup [t : {"other"}, dir : DirPool(plat), name : {ClassA \o JavaExt}]
    \cup [t : {"dir", "locked"}, dir : DirPool(plat), name : {<<>>}]

\* The subsets of P of at most n elements.
RECURSIVE SubsetsUpTo(_, _)
SubsetsUpTo(P, n) ==
    IF n = 0 THEN {{}}
    ELSE LET smaller == SubsetsUpTo(P, n - 1) IN
         smaller \cup {S \cup {x} : S \in smaller, x \in P}

Prefixes(dir) == {SubSeq(dir, 1, n) : n \in 1..Len(dir)}

DirsOf(S) == {<<>>} \cup UNION {Prefixes(f.dir) : f \in S}

LeavesOf(S) == {Append(f.dir, f.name) : f \in {g \in S : g.t \in {"file", "other"}}}

\* No path is both a regular file and a non-regular entry.
Consistent(S) ==
    \A f, g \in S :
        (f.t \in {"file", "other"} /\ g.t \in {"file", "other"}
         /\ f.dir = g.dir /\ f.name = g.name) => f = g

\* The content of the file at path q: its path, so that two files differ.
contentOf(q) == joinWith(q, SLASH)

TreeOf(S) ==
    [q \in DirsOf(S) \cup LeavesOf(S) |->
        IF q \in DirsOf(S)
        THEN [kind |-> "dir",
              readable |-> ~\E f \in S : f.t = "locked" /\ f.dir = q,
              content |-> <<>>]
        ELSE [kind |-> (CHOOSE f \in S : f.t \in {"file", "other"}
                                        /\ Append(f.dir, f.name) = q).t,
              readable |-> TRUE,
              content |-> contentOf(q)]]

Trees(plat) ==
    {TreeOf(S) : S \in {S \in SubsetsUpTo(FeaturePool(plat), MaxEntries) : Consistent(S)}}

\* The orders in which the elements of S can be listed.
Perms(S) ==
    {q \in [1..Cardinality(S) -> S] : \A i, j \in 1..Cardinality(S) : q[i] = q[j] => i = j}

\* The listings fs.readdir can return: any order of the entries, directory by
\* directory.
RECURSIVE OrdersOver(_, _)
OrdersOver(tree, D) ==
    IF D = {} THEN {[q \in {} |-> <<>>]}
    ELSE LET d == CHOOSE d \in D : TRUE IN
         {(d :> q) @@ f : q \in Perms(children(tree, d)), f \in OrdersOver(tree, D \ {d})}

Orders(tree) == OrdersOver(tree, {q \in DOMAIN tree : tree[q].kind = "dir"})

LocateArgs ==
    [className : {ClassA, <<>>},
     sourceType : {"undefined", "source", "test"},
     packagePath : {<<>>, PKG}]

(***************************************************************************)
(* The locator as a state machine: one locate_java_class call on a tree.   *)
(***************************************************************************)
InitLocate ==
    /\ platform \in {"posix", "win32"}
    /\ fs \in Trees(platform)
    /\ located = NoLocate
    /\ created = <<>>
    /\ rewritten = NoRewrite
    /\ tool = NoTool
    /\ inflight = NoCalls
    /\ universe = "scenario"
    /\ disk = <<>>
    /\ calls = 0
    /\ last = NoCall
    /\ prev = NoCall

\* A directory fs.mkdir makes.
NewDirectory == [kind |-> "dir", readable |-> TRUE, content |-> <<>>]

\* fs.mkdir(path, {recursive: true}): it fails when an entry on the way is no
\* directory, and makes the directories that are missing otherwise.
mkdir(tree, path) ==
    IF \E q \in Prefixes(path) : q \in DOMAIN tree /\ tree[q].kind # "dir"
    THEN [threw |-> TRUE, tree |-> tree]
    ELSE [threw |-> FALSE,
          tree |-> [q \in DOMAIN tree \cup Prefixes(path) |->
                       IF q \in DOMAIN tree THEN tree[q] ELSE NewDirectory]]

\* fs.writeFile(filePath, data, 'utf-8') in an existing directory: the file is
\* made when it is missing and holds data afterwards.
writeFile(tree, filePath, data) ==
    [q \in DOMAIN tree \cup {filePath} |->
        IF q = filePath THEN [kind |-> "file", readable |-> TRUE, content |-> data]
        ELSE tree[q]]

\* Faulty variant of treeAfterLocate: the search directory is made when it is
\* missing.
treeAfterLocate_mkdir(tree, args) ==
    mkdir(tree, getJavaRootPath(args.sourceType, args.packagePath).path).tree

\* The tree after handleLocateJavaClass: its file-system calls are fs.access
\* (part_000 line 43), fs.readdir and fs.readFile (part_001 lines 15 and 27),
\* and none of them writes.
treeAfterLocate(tree, args) == tree

LocateJavaClass(args, order) ==
    /\ located' = [made |-> TRUE, args |-> args, order |-> order, before |-> fs,
                   outcome |-> handleLocateJavaClass(fs, platform, order, args)]
    /\ fs' = treeAfterLocate(fs, args)
    /\ UNCHANGED <<platform, created, rewritten, tool, patchVars>>

NextLocate ==
    /\ ~located.made
    /\ \E args \in LocateArgs, order \in Orders(fs) : LocateJavaClass(args, order)

SpecLocate == InitLocate /\ [][NextLocate]_vars

(***************************************************************************)
(* Properties of the locator.                                              *)
(***************************************************************************)

\* The directory the last call resolved.
ResolvedRoot == getJavaRootPath(located.args.sourceType, located.args.packagePath)

\* The regular files below the resolved directory named <className>.java.
TargetFiles ==
    {q \in DOMAIN fs :
        /\ fs[q].kind = "file"
        /\ q[Len(q)] = located.args.className \o JavaExt
        /\ Len(q) > Len(ResolvedRoot.path)
        /\ SubSeq(q, 1, Len(ResolvedRoot.path)) = ResolvedRoot.path}

\* C8: when the tree below the resolved directory holds exactly one regular
\* file named <className>.java (and every directory can be listed), then for
\* every listing order the result has found = true, the content of that file,
\* and a forward-slash filepath that, joined to the project root, names that file.
C8_UniqueNameLocated ==
    (/\ located.made /\ ~located.outcome.threw
     /\ Cardinality(TargetFiles) = 1
     /\ \A q \in DOMAIN fs : fs[q].readable)
    => LET r == located.outcome.json
           q == CHOOSE q \in TargetFiles : TRUE
       IN /\ r.found
          /\ r.content = fs[q].content
          /\ \A k \in 1..Len(r.filepath) : r.filepath[k] # BACKSLASH
          /\ resolveUnderProject(platform, r.filepath) = q

\* C9: a call whose resolved directory does not exist, or whose tree holds no
\* regular file named <className>.java, raises no error and returns found = false.
C9_NotFoundIsNoError ==
    (/\ located.made
     /\ ClassLocationSchema(located.args)
     /\ ~ResolvedRoot.threw
     /\ (ResolvedRoot.path \notin DOMAIN fs \/ TargetFiles = {}))
    => (~located.outcome.threw /\ ~located.outcome.json.found)

\* C9 witness: the resolved directory exists and holds a directory that cannot
\* be listed and another entry, none a regular file named <className>.java.
C9_Witness ==
    /\ located.made
    /\ ClassLocationSchema(located.args)
    /\ ~ResolvedRoot.threw
    /\ ResolvedRoot.path \in DOMAIN fs
    /\ TargetFiles = {}
    /\ \E q \in DOMAIN fs :
          /\ ~fs[q].readable
          /\ Len(q) >= Len(ResolvedRoot.path)
          /\ SubSeq(q, 1, Len(ResolvedRoot.path)) = ResolvedRoot.path
    /\ \E q \in DOMAIN fs : fs[q].kind # "dir"
    /\ ~located.outcome.threw

\* C10: in every result the locator returns, found is true if and only if both
\* the filepath and the content are present, and a result with found = false
\* carries neither a filepath nor a content.
C10_FoundIffPathAndContent ==
    (located.made /\ ~located.outcome.threw)
    => LET r == located.outcome.json IN
       /\ r.found <=> ("filepath" \in DOMAIN r /\ "content" \in DOMAIN r)
       /\ ~r.found => ("filepath" \notin DOMAIN r /\ "content" \notin DOMAIN r)

\* Every directory from the resolved directory down to the parent of q can be listed.
ListableDownTo(q) ==
    \A n \in Len(ResolvedRoot.path)..(Len(q) - 1) : fs[SubSeq(q, 1, n)].readable

\* A directory strictly below the resolved directory cannot be listed.
SomeBranchFails ==
    \E d \in DOMAIN fs :
        /\ fs[d].kind = "dir" /\ ~fs[d].readable
        /\ Len(d) > Len(ResolvedRoot.path)
        /\ SubSeq(d, 1, Len(ResolvedRoot.path)) = ResolvedRoot.path

\* C11: when a subdirectory of the search tree cannot be listed, the call does
\* not fail, and a file named <className>.java in a branch that can be listed
\* is still returned with found = true.
C11_PartialFailureTolerated ==
    (/\ located.made
     /\ ClassLocationSchema(located.args)
     /\ ~ResolvedRoot.threw
     /\ ResolvedRoot.path \in DOMAIN fs
     /\ SomeBranchFails
     /\ \E q \in TargetFiles : ListableDownTo(q))
    => /\ ~located.outcome.threw
       /\ located.outcome.json.found
       /\ \E q \in TargetFiles :
             ListableDownTo(q) /\ located.outcome.json.content = fs[q].content

\* C11 witness: a call that found the file although a branch of its search
\* tree could not be listed.
C11_Witness ==
    /\ located.made
    /\ ClassLocationSchema(located.args)
    /\ ~ResolvedRoot.threw
    /\ ResolvedRoot.path \in DOMAIN fs
    /\ SomeBranchFails
    /\ ~located.outcome.threw
    /\ located.outcome.json.found

(***************************************************************************)
(* Further properties of the patch engine.                                 *)
(***************************************************************************)

\* C12: a batch that holds an edit whose oldText is the empty string is
\* rejected: the call fails and the file is unchanged.
C12_EmptyOldTextRejected ==
    (last.made /\ \E k \in 1..Len(last.edits) : last.edits[k].oldText = <<>>)
    => (last.threw /\ disk = last.before)

\* The file after the call is the file before it with the region i..j replaced:
\* what stands before i and after j is kept character for character.
KeptOutside(before, after, i, j) ==
    /\ Len(after) >= Len(before) - (j - i + 1)
    /\ Slice(after, 1, i - 1) = Slice(before, 1, i - 1)
    /\ Slice(after, Len(after) - (Len(before) - j) + 1, Len(after))
          = Slice(before, j + 1, Len(before))

\* C13: after a successful call that is no dry run, the file outside the
\* replaced regions is character for character the file before the call: an
\* empty batch leaves the file identical, and a batch of one edit matched
\* literally changes only a region that held oldText.
C13_WriteBackFrame ==
    (last.made /\ ~last.dryRun /\ ~last.threw)
    => /\ last.edits = <<>> => disk = last.before
       /\ last.tiers = <<1>> =>
             \E i \in 1..(Len(last.before) + 1) : \E j \in (i - 1)..Len(last.before) :
                /\ normalizeLineEndings(Slice(last.before, i, j))
                      = normalizeLineEndings(last.edits[1].oldText)
                /\ KeptOutside(last.before, disk, i, j)

\* A text of the LF convention written in the CRLF convention.
RECURSIVE withCRLF(_)
withCRLF(text) ==
    IF Len(text) = 0 THEN <<>>
    ELSE (IF text[1] = NL THEN <<CR, NL>> ELSE <<text[1]>>) \o withCRLF(Tail(text))

\* The edits of a batch written in the CRLF convention.
editsWithCRLF(edits) ==
    [k \in 1..Len(edits) |->
        [oldText |-> withCRLF(edits[k].oldText), newText |-> withCRLF(edits[k].newText)]]

\* A text of the LF convention: no carriage return in it.
IsLF(text) == \A k \in 1..Len(text) : text[k] # CR

\* Call r went as the last call did: the same failure or success, the same
\* tier for every edit, the same normalized content.
SameOutcome(r) ==
    /\ r.threw = last.threw
    /\ r.tiers = last.tiers
    /\ normalizeLineEndings(r.modified) = normalizeLineEndings(last.modified)

C17_LocatorReadOnly == located.made => fs = located.before

\* C17 witness: a call that went through the tree, read the file and returned it.
C17_Witness ==
    /\ located.made
    /\ ~located.outcome.threw
    /\ located.outcome.json.found
    /\ located.outcome.json.content # <<>>
    /\ fs = located.before

(***************************************************************************)
(* The server of index.ts (class TestingServer): its own resolver of the   *)
(* search directory, its own search, and the handlers of locate_java_class *)
(* and create_java_class.                                                  *)
(***************************************************************************)
MaxCreates == 2

\* TestingServer.getJavaRootPath (index.ts lines 161-174); it never throws.
TestingServerGetJavaRootPath(sourceType, packagePath) ==
    [threw |-> FALSE,
     path |-> (IF sourceType = "test" THEN <<SRC, TEST>>
               ELSE IF sourceType = "source" THEN <<MAIN>>
               ELSE <<SRC>>)
              \o <<JAVA>>
              \o (IF packagePath # <<>> THEN splitOn(packagePath, DOT) ELSE <<>>)]

\* return {found: false} (index.ts line 155).
serverNotFound == [found |-> FALSE]

\* searchJavaFile (index.ts lines 128-159) from entry k of the listing of
\* dirPath: the search of part_001, its errors caught in each directory, with
\* a result of found = false that carries nothing else.
RECURSIVE searchJavaFileFrom(_, _, _, _, _, _)
searchJavaFileFrom(tree, plat, order, dirPath, k, className) ==
    IF dirPath \notin DOMAIN tree \/ tree[dirPath].kind # "dir" \/ ~tree[dirPath].readable
    THEN serverNotFound
    ELSE IF k > Len(order[dirPath]) THEN serverNotFound
    ELSE IF tree[Append(dirPath, order[dirPath][k])].kind = "dir"
         /\ searchJavaFileFrom(tree, plat, order, Append(dirPath, order[dirPath][k]),
                               1, className).found
    THEN searchJavaFileFrom(tree, plat, order, Append(dirPath, order[dirPath][k]),
                            1, className)
    ELSE IF tree[Append(dirPath, order[dirPath][k])].kind = "file"
         /\ order[dirPath][k] = className \o JavaExt
    THEN foundFile(tree, plat, Append(dirPath, order[dirPath][k])).result
    ELSE searchJavaFileFrom(tree, plat, order, dirPath, k + 1, className)

searchJavaFile(tree, plat, order, searchPath, className) ==
    searchJavaFileFrom(tree, plat, order, searchPath, 1, className)

\* The locate_java_class handler of index.ts (lines 214-245).
serverLocateJavaClass(tree, plat, order, args) ==
    IF ~ClassLocationSchema(args) THEN [threw |-> TRUE, code |-> "Error"]
    ELSE IF TestingServerGetJavaRootPath(args.sourceType, args.packagePath).path
               \notin DOMAIN tree
    THEN [threw |-> FALSE, json |-> serverNotFound]
    ELSE [threw |-> FALSE,
          json |-> searchJavaFile(tree, plat, order,
                       TestingServerGetJavaRootPath(args.sourceType, args.packagePath).path,
                       args.className)]

\* ClassCreateSchema (index.ts lines 67-76): sourceType and packagePath are
\* required.
ClassCreateSchema(args) ==
    /\ Len(args.className) >= 1
    /\ args.sourceType \in {"source", "test"}
    /\ args.packagePath # <<>>
    /\ \A k \in 1..Len(splitOn(args.packagePath, DOT)) :
          isPackageSegment(splitOn(args.packagePath, DOT)[k])

\* The content create_java_class writes (lines 276-281).
classContent(className, packagePath) ==
    (IF packagePath # <<>>
     THEN <<"p", "a", "c", "k", "a", "g", "e", SP>> \o packagePath \o <<";", NL, NL>>
     ELSE <<>>)
    \o <<"p", "u", "b", "l", "i", "c", SP, "c", "l", "a", "s", "s", SP>> \o className
    \o <<SP, "{", NL, "}", NL, "}">>

\* Faulty variant of exists: the file is never seen.
exists_never(tree, filePath) == FALSE

\* fs.access(filePath) succeeds (lines 261-262).
exists(tree, filePath) == filePath \in DOMAIN tree

\* create_java_class once the directory is made (lines 258-293): the refusal
\* when the file exists, or the write and the report of it.
createIn(tree, plat, args, filePath) ==
    IF exists(tree, filePath)
    THEN [threw |-> FALSE, tree |-> tree,
          json |-> [success |-> FALSE, error |-> "Class file already exists"]]
    ELSE [threw |-> FALSE,
          tree |-> writeFile(tree, filePath,
                             classContent(args.className, args.packagePath)),
          json |-> [success |-> TRUE,
                    filepath |-> forwardSlashes(pathRelative(plat, filePath))]]

\* create_java_class after fs.mkdir gave made (lines 256-299).
createAfterMkdir(plat, args, searchPath, made) ==
    IF made.threw
    THEN [threw |-> TRUE, code |-> "InternalError", tree |-> made.tree]
    ELSE createIn(made.tree, plat, args, Append(searchPath, args.className \o JavaExt))

\* create_java_class in a directory (lines 253-299).
createAt(tree, plat, args, searchPath) ==
    createAfterMkdir(plat, args, searchPath, mkdir(tree, searchPath))

\* The create_java_class handler of index.ts (lines 247-301): its outcome and
\* the tree it leaves.
serverCreateJavaClass(tree, plat, args) ==
    IF ~ClassCreateSchema(args) THEN [threw |-> TRUE, code |-> "Error", tree |-> tree]
    ELSE createAt(tree, plat, args,
                  TestingServerGetJavaRootPath(args.sourceType, args.packagePath).path)

\* The trees of the server runs: directories the server resolves, class files
\* in them, and a regular file where the server expects the directory main.
ServerDirPool ==
    {<<SRC, JAVA>>, <<SRC, JAVA, PKG>>, <<SRC, TEST, JAVA, PKG>>, <<MAIN, JAVA, PKG>>}

ServerFeaturePool ==
    [t : {"file"}, dir : ServerDirPool, name : {ClassA \o JavaExt}]
    \cup [t : {"dir"}, dir : ServerDirPool, name : {<<>>}]
    \cup [t : {"file"}, dir : {<<>>}, name : {MAIN}]

\* No path is both a directory and an entry that is none.
WellFormed(S) == Consistent(S) /\ DirsOf(S) \cap LeavesOf(S) = {}

ServerTrees ==
    {TreeOf(S) : S \in {S \in SubsetsUpTo(ServerFeaturePool, MaxEntries) : WellFormed(S)}}

ServerLocateArgs ==
    [className : {ClassA},
     sourceType : {"undefined", "source", "test"},
     packagePath : {<<>>, PKG}]

CreateArgs ==
    [className : {ClassA}, sourceType : {"source", "test"}, packagePath : {<<>>, PKG}]

InitServer ==
    /\ platform \in {"posix", "win32"}
    /\ fs \in ServerTrees
    /\ located = NoLocate
    /\ created = <<>>
    /\ rewritten = NoRewrite
    /\ tool = NoTool
    /\ inflight = NoCalls
    /\ universe = "scenario"
    /\ disk = <<>>
    /\ calls = 0
    /\ last = NoCall
    /\ prev = NoCall

\* A locate_java_class request to the server of index.ts.
ServerLocateJavaClass(args, order) ==
    /\ ~located.made
    /\ located' = [made |-> TRUE, args |-> args, before |-> fs,
                   outcome |-> serverLocateJavaClass(fs, platform, order, args)]
    /\ UNCHANGED <<platform, fs, created, rewritten, tool, patchVars>>

\* A create_java_class request completes with outcome r.
CreateCompletes(args, r) ==
    /\ created' = Append(created, [args |-> args, before |-> fs, after |-> r.tree,
                                    outcome |-> r])
    /\ fs' = r.tree
    /\ UNCHANGED <<platform, located, rewritten, tool, patchVars>>

\* A create_java_class request to the server of index.ts.
ServerCreateJavaClass(args) ==
    /\ Len(created) < MaxCreates
    /\ ~located.made
    /\ CreateCompletes(args, serverCreateJavaClass(fs, platform, args))

NextServer ==
    \/ \E args \in ServerLocateArgs, order \in Orders(fs) :
          ServerLocateJavaClass(args, order)
    \/ \E args \in CreateArgs : ServerCreateJavaClass(args)

SpecServer == InitServer /\ [][NextServer]_vars

(***************************************************************************)
(* Properties of the server of index.ts.                                   *)
(***************************************************************************)

\* C15: a request that names a package without a source type fails with an
\* error, and nothing is read, created or written; no entry point routes such
\* a request to a directory instead.
C15_PackageNeedsSourceType ==
    (/\ located.made
     /\ located.args.sourceType = "undefined"
     /\ located.args.packagePath # <<>>)
    => (located.outcome.threw /\ fs = located.before)

\* dir is root or lies below it.
IsAncestorOrSelf(root, dir) ==
    Len(root) <= Len(dir) /\ SubSeq(dir, 1, Len(root)) = root

\* The file of class ClassA in the directory the server resolves for a source
\* type and the package PKG.
ClassifiedFile(sourceType) ==
    Append(TestingServerGetJavaRootPath(sourceType, PKG).path, ClassA \o JavaExt)

\* C16: the directory searched without a source type is the same in every
\* tool and is an ancestor of (or equal to) the directories of both source
\* types, which are distinct; so a class file below the directory of a source
\* type is found by a locate without source type and package.
C16_SharedFallbackRoot ==
    /\ TestingServerGetJavaRootPath("undefined", <<>>).path
          = getJavaRootPath("undefined", <<>>).path
    /\ \A st \in {"source", "test"} :
          IsAncestorOrSelf(TestingServerGetJavaRootPath("undefined", <<>>).path,
                           TestingServerGetJavaRootPath(st, <<>>).path)
    /\ TestingServerGetJavaRootPath("source", <<>>).path
          # TestingServerGetJavaRootPath("test", <<>>).path
    /\ (/\ located.made
        /\ located.args.sourceType = "undefined"
        /\ located.args.packagePath = <<>>
        /\ \E st \in {"source", "test"} :
              /\ ClassifiedFile(st) \in DOMAIN fs
              /\ fs[ClassifiedFile(st)].kind = "file")
       => (~located.outcome.threw /\ located.outcome.json.found)

\* The file a create_java_class request is about.
createdFile(args) ==
    Append(TestingServerGetJavaRootPath(args.sourceType, args.packagePath).path,
           args.className \o JavaExt)

\* The requests of the run for the class of args that reported success.
Successes(args) ==
    {k \in 1..Len(created) :
        /\ created[k].args = args
        /\ ~created[k].outcome.threw
        /\ created[k].outcome.json.success}

\* C18: create_java_class on a file that exists reports success = false with
\* the error "Class file already exists" and leaves the file as it was; after
\* any sequence of create requests for one class, at most one reported
\* success, exactly one when the file was absent at the first of them, and the
\* file holds what that request wrote.
C18_NeverOverwrites ==
    /\ \A k \in 1..Len(created) :
          (/\ ClassCreateSchema(created[k].args)
           /\ createdFile(created[k].args) \in DOMAIN created[k].before
           /\ created[k].before[createdFile(created[k].args)].kind = "file")
          => /\ ~created[k].outcome.threw
             /\ created[k].outcome.json
                   = [success |-> FALSE, error |-> "Class file already exists"]
             /\ created[k].after[createdFile(created[k].args)]
                   = created[k].before[createdFile(created[k].args)]
    /\ \A args \in CreateArgs :
          /\ Cardinality(Successes(args)) <= 1
          /\ Successes(args) # {}
             => /\ createdFile(args) \in DOMAIN fs
                /\ fs[createdFile(args)].content
                      = classContent(args.className, args.packagePath)
          /\ (\E k \in 1..Len(created) :
                 /\ created[k].args = args
                 /\ ~created[k].outcome.threw
                 /\ \A j \in 1..k :
                       created[j].args = args
                       => createdFile(args) \notin DOMAIN created[j].before \/ j = k
                 /\ createdFile(args) \notin DOMAIN created[k].before)
             => Cardinality(Successes(args)) = 1

\* C18 witness: two requests for one class, the first wrote the file and the
\* second was refused, and the file holds what the first wrote.
C18_Witness ==
    /\ Len(created) = 2
    /\ created[1].args = created[2].args
    /\ ~created[1].outcome.threw /\ created[1].outcome.json.success
    /\ ~created[2].outcome.threw /\ ~created[2].outcome.json.success
    /\ created[2].outcome.json.error = "Class file already exists"
    /\ fs[createdFile(created[1].args)].content
          = classContent(created[1].args.className, created[1].args.packagePath)

(***************************************************************************)
(* class_rewrite_full (classRewriteFull.ts): the check of the content and  *)
(* the overwrite of the class file the locator finds.                      *)
(***************************************************************************)
MAX_FILE_SIZE == 15360

Upper ==
    {"A", "B", "C", "D", "E", "F", "G", "H", "I", "J", "K", "L", "M",
     "N", "O", "P", "Q", "R", "S", "T", "U", "V", "W", "X", "Y", "Z"}

\* The character classes of the two patterns: \s, [a-z0-9_], [A-Za-z_],
\* [A-Za-z0-9_], and the characters after which ^ matches under the flag m.
Space == {SP, TAB, NL, CR}
SegmentChar == Lower \cup Digit \cup {"_"}
IdentStart == Upper \cup Lower \cup {"_"}
WordChar == Upper \cup Lower \cup Digit \cup {"_"}
LineTerminator == {NL, CR}

KwPackage == <<"p", "a", "c", "k", "a", "g", "e">>
KwClass == <<"c", "l", "a", "s", "s">>

\* A match that failed: content.match(...) is null.
NoMatch == <<>>

\* The position after the longest run of characters of class from i on.
RECURSIVE scanWhile(_, _, _)
scanWhile(str, i, class) ==
    IF i <= Len(str) /\ str[i] \in class THEN scanWhile(str, i + 1, class) ELSE i

\* The literal lit stands at position i.
hasAt(str, i, lit) ==
    i + Len(lit) - 1 <= Len(str) /\ SubSeq(str, i, i + Len(lit) - 1) = lit

\* (?:\.[a-z][a-z0-9_]*)* from j on: the position after it.
RECURSIVE segmentsEnd(_, _)
segmentsEnd(str, j) ==
    IF j + 1 <= Len(str) /\ str[j] = DOT /\ str[j + 1] \in Lower
    THEN segmentsEnd(str, scanWhile(str, j + 2, SegmentChar))
    ELSE j

\* [a-z][a-z0-9_]*(?:\.[a-z][a-z0-9_]*)* from i on: the position after it, or
\* 0 when it does not match.
packageNameEnd(str, i) ==
    IF i <= Len(str) /\ str[i] \in Lower
    THEN segmentsEnd(str, scanWhile(str, i + 1, SegmentChar))
    ELSE 0

\* \s*; after the name that spans c..e-1: the name, or no match.
closedName(str, c, e) ==
    IF scanWhile(str, e, Space) <= Len(str) /\ str[scanWhile(str, e, Space)] = ";"
    THEN SubSeq(str, c, e - 1)
    ELSE NoMatch

\* The name from c on and what follows it.
capturedName(str, c) ==
    IF packageNameEnd(str, c) = 0 THEN NoMatch
    ELSE closedName(str, c, packageNameEnd(str, c))

\* package\s+ at a, then the name.
afterKeyword(str, a) ==
    IF hasAt(str, a, KwPackage)
       /\ a + Len(KwPackage) <= Len(str)
       /\ str[a + Len(KwPackage)] \in Space
    THEN capturedName(str, scanWhile(str, a + Len(KwPackage), Space))
    ELSE NoMatch

\* The package pattern tried at the line start i: its group 1, or no match.
packageMatchAt(str, i) == afterKeyword(str, scanWhile(str, i, Space))

\* content.match(/^\s*package\s+(...)\s*;/m) (line 30): group 1 of the first
\* match, looking from position i on.
RECURSIVE packageMatchFrom(_, _)
packageMatchFrom(str, i) ==
    IF i > Len(str) + 1 THEN NoMatch
    ELSE IF (i = 1 \/ str[i - 1] \in LineTerminator) /\ packageMatchAt(str, i) # NoMatch
    THEN packageMatchAt(str, i)
    ELSE packageMatchFrom(str, i + 1)

packageMatch(content) == packageMatchFrom(content, 1)

\* The identifier from c on, or no match.
capturedIdent(str, c) ==
    IF c <= Len(str) /\ str[c] \in IdentStart
    THEN SubSeq(str, c, scanWhile(str, c + 1, WordChar) - 1)
    ELSE NoMatch

\* The class pattern tried at position i: its group 1, or no match.
classMatchAt(str, i) ==
    IF /\ i = 1 \/ str[i - 1] \notin WordChar
       /\ hasAt(str, i, KwClass)
       /\ i + Len(KwClass) <= Len(str)
       /\ str[i + Len(KwClass)] \in Space
    THEN capturedIdent(str, scanWhile(str, i + Len(KwClass), Space))
    ELSE NoMatch

\* content.match(/\bclass\s+([A-Za-z_][A-Za-z0-9_]*)/) (line 42): group 1 of
\* the first match, looking from position i on.
RECURSIVE classMatchFrom(_, _)
classMatchFrom(str, i) ==
    IF i > Len(str) THEN NoMatch
    ELSE IF classMatchAt(str, i) # NoMatch THEN classMatchAt(str, i)
    ELSE classMatchFrom(str, i + 1)

classMatch(content) == classMatchFrom(content, 1)

\* validateContent (lines 28-50) throws: the package declaration is looked
\* at only when packagePath is given.
validateContent(content, className, packagePath) ==
    \/ packagePath # <<>> /\ packageMatch(content) = NoMatch
    \/ packagePath # <<>> /\ packageMatch(content) # packagePath
    \/ classMatch(content) = NoMatch
    \/ classMatch(content) # className

\* ClassRewriteFullSchema (lines 15-18).
ClassRewriteFullSchema(args) == ClassLocationSchema(args) /\ Len(args.content) >= 1

\* fs.writeFile(fullPath, content) (line 80) and the return, or the error of
\* a path whose directory does not exist or that names a directory.
rewriteAt(tree, args, fullPath, filepath) ==
    IF \/ SubSeq(fullPath, 1, Len(fullPath) - 1) \notin DOMAIN tree
       \/ tree[SubSeq(fullPath, 1, Len(fullPath) - 1)].kind # "dir"
       \/ fullPath \in DOMAIN tree /\ tree[fullPath].kind = "dir"
    THEN [threw |-> TRUE, code |-> "InternalError", tree |-> tree]
    ELSE [threw |-> FALSE, filepath |-> filepath,
          tree |-> writeFile(tree, fullPath, args.content)]

\* rewriteClassFull once the search gave r (lines 75-82).
rewriteFound(tree, plat, args, r) ==
    IF r.threw THEN [threw |-> TRUE, code |-> "InternalError", tree |-> tree]
    ELSE IF ~r.result.found \/ r.result.filepath = <<>>
    THEN [threw |-> TRUE, code |-> "InvalidRequest", tree |-> tree]
    ELSE rewriteAt(tree, args, resolveUnderProject(plat, r.result.filepath),
                   r.result.filepath)

\* rewriteClassFull once the directory is resolved (lines 72-82).
rewriteIn(tree, plat, order, args, root) ==
    IF root.threw THEN [threw |-> TRUE, code |-> "InternalError", tree |-> tree]
    ELSE rewriteFound(tree, plat, args,
                      searchInDirectory(tree, plat, order, root.path, args.className))

\* rewriteClassFull (lines 53-88): its outcome and the tree it leaves.
rewriteClassFull(tree, plat, order, args) ==
    IF ~ClassRewriteFullSchema(args)
    THEN [threw |-> TRUE, code |-> "InvalidRequest", tree |-> tree]
    ELSE IF Len(args.content) > MAX_FILE_SIZE
    THEN [threw |-> TRUE, code |-> "InvalidRequest", tree |-> tree]
    ELSE IF validateContent(args.content, args.className, args.packagePath)
    THEN [threw |-> TRUE, code |-> "InvalidRequest", tree |-> tree]
    ELSE rewriteIn(tree, plat, order, args,
                   getJavaRootPath(args.sourceType, args.packagePath))

\* The contents of the runs: a class with and without a package declaration,
\* another class, another package, a declaration without a class, the word
\* class inside a longer word, and the empty text.
OtherPKG == <<"q">>

declared(packagePath, className) ==
    KwPackage \o <<SP>> \o packagePath \o <<";", NL>>
    \o KwClass \o <<SP>> \o className \o <<SP, "{", "}">>

bare(className) == KwClass \o <<SP>> \o className \o <<SP, "{", "}">>

RewriteContents ==
    {declared(PKG, ClassA), declared(OtherPKG, ClassA), declared(PKG, ClassB),
     bare(ClassA), bare(ClassB), bare(ClassA \o ClassB),
     KwPackage \o <<SP>> \o PKG \o <<";">>,
     <<"s", "u", "b">> \o bare(ClassA),
     <<>>}

RewriteArgs ==
    [className : {ClassA},
     sourceType : {"undefined", "source", "test"},
     packagePath : {<<>>, PKG},
     content : RewriteContents]

InitRewrite ==
    /\ platform \in {"posix", "win32"}
    /\ fs \in Trees(platform)
    /\ located = NoLocate
    /\ created = <<>>
    /\ rewritten = NoRewrite
    /\ tool = NoTool
    /\ inflight = NoCalls
    /\ universe = "scenario"
    /\ disk = <<>>
    /\ calls = 0
    /\ last = NoCall
    /\ prev = NoCall

\* A class_rewrite_full request completes with outcome r.
RewriteCompletes(args, r) ==
    /\ rewritten' = [made |-> TRUE, args |-> args, before |-> fs, outcome |-> r]
    /\ fs' = r.tree
    /\ UNCHANGED <<platform, located, created, tool, patchVars>>

\* A class_rewrite_full request; order is what fs.readdir returns.
RewriteClassFull(args, order) ==
    /\ ~rewritten.made
    /\ RewriteCompletes(args, rewriteClassFull(fs, platform, order, args))

NextRewrite == \E args \in RewriteArgs, order \in Orders(fs) : RewriteClassFull(args, order)

SpecRewrite == InitRewrite /\ [][NextRewrite]_vars

\* The package of the directory of path q below src/main/java or
\* src/test/java, as the dotted name a declaration gives it.
locationPackage(q) == joinWith(SubSeq(q, 4, Len(q) - 1), DOT)

\* q lies below one of the two source roots.
InSourceRoot(q) ==
    Len(q) >= 4 /\ SubSeq(q, 1, 3) \in {<<SRC, MAIN, JAVA>>, <<SRC, TEST, JAVA>>}

\* The package the content declares agrees with the place of file q; the
\* content without a declaration is in the package without a name.
AgreesWithLocation(content, q) ==
    InSourceRoot(q) => packageMatch(content) = locationPackage(q)

\* C19: class_rewrite_full changes a file only when it exists, the class name
\* in the content is className and the package the content declares agrees
\* with the place of the file; when the class name is another or the content
\* declares no class, the request fails with InvalidRequest and the tree is
\* as before.
C19_RewriteOnlyWhenAgreeing ==
    rewritten.made =>
        /\ \A q \in DOMAIN fs :
              (q \notin DOMAIN rewritten.before \/ fs[q] # rewritten.before[q])
              => /\ q \in DOMAIN rewritten.before
                 /\ classMatch(rewritten.args.content) = rewritten.args.className
                 /\ AgreesWithLocation(rewritten.args.content, q)
        /\ classMatch(rewritten.args.content) # rewritten.args.className
           => /\ rewritten.outcome.threw
              /\ rewritten.outcome.code = "InvalidRequest"
              /\ fs = rewritten.before

(***************************************************************************)
(* applyFileEdits on a file that is removed after it was read (line 36)    *)
(* and before the write-back step (line 94).  fs.writeFile opens the path  *)
(* with the flag w, which creates the file when there is none.             *)
(***************************************************************************)

\* The state of a path that names no file.
Missing == <<"ENOENT">>

\* applyFileEdits on a file holding onDisk when it is read and removed before
\* the write-back step: the loop runs on the content read, the write-back
\* finds no file.
applyFileEditsRemoved(onDisk, edits, dryRun) ==
    applyToContent(Missing, edits, dryRun, normalizeLineEndings(onDisk))

\* A call during which the file is removed after the read.
ApplyFileEditsRemoved(edits, dryRun) ==
    /\ calls = 0
    /\ Completes(edits, dryRun, applyFileEditsRemoved(disk, edits, dryRun))

NextPersist ==
    \E edits \in Batches[universe], dryRun \in BOOLEAN : ApplyFileEditsRemoved(edits, dryRun)

SpecPersist == Init /\ [][NextPersist]_vars

\* Every edit of the last call matched: the call reached the write-back step.
ReachedWriteBack ==
    ~editLoop(normalizeLineEndings(last.before), last.edits, 1, <<>>, <<>>).threw

\* C20: when the file is gone at the write-back step of a call that is no dry
\* run, the call fails with an error and the file is not created again.
C20_MissingFileAtPersist ==
    (last.made /\ ~last.dryRun /\ ReachedWriteBack)
    => (last.threw /\ disk = Missing)

(***************************************************************************)
(* Further properties of the patch engine.                                 *)
(***************************************************************************)

\* The file after the edits from edit k on are made one call each, every call
\* a batch of one edit and no dry run, and whether one of the calls threw.
RECURSIVE oneAtATime(_, _, _)
oneCall(onDisk, edits, k, r) ==
    IF r.threw THEN [threw |-> TRUE, disk |-> onDisk]
    ELSE oneAtATime(r.disk, edits, k + 1)

oneAtATime(onDisk, edits, k) ==
    IF k > Len(edits) THEN [threw |-> FALSE, disk |-> onDisk]
    ELSE oneCall(onDisk, edits, k, applyFileEdits(onDisk, <<edits[k]>>, FALSE))

\* No working content of the last call holds a carriage return before a line
\* feed: reading any of them back from a file gives the same text.
WorkingContentsStable ==
    /\ \A k \in 1..Len(last.inputs) : normalizeLineEndings(last.inputs[k]) = last.inputs[k]
    /\ normalizeLineEndings(last.modified) = last.modified

MatchingWindows(c, o) ==
    {i \in 1..(Len(split(c)) - Len(split(o)) + 1) :
        \A j \in 1..Len(split(o)) : trim(split(c)[i + j - 1]) = trim(split(o)[j])}

\* The lines of the working content after a Tier 2 edit at window i: the
\* lines before the window and after it are those of c, and between them
\* stands one line for each line of n, equal to it up to leading whitespace.
WindowReplaced(c, o, n, after, i) ==
    /\ Len(split(after)) = Len(split(c)) - Len(split(o)) + Len(split(n))
    /\ \A q \in 1..(i - 1) : split(after)[q] = split(c)[q]
    /\ \A q \in 1..Len(split(n)) : trimStart(split(after)[i + q - 1]) = trimStart(split(n)[q])
    /\ \A q \in (i + Len(split(o)))..Len(split(c)) :
          split(after)[q - Len(split(o)) + Len(split(n))] = split(c)[q]

\* What C23 says of edit k of the last call, whose normalized texts are o and
\* n and whose working content is c.
Tier2Law(k, c, o, n) ==
    IF MatchingWindows(c, o) = {}
    THEN last.threw /\ k = Len(last.inputs) /\ last.tiers[k] = 0
    ELSE /\ last.tiers[k] = 2
         /\ WindowReplaced(c, o, n, AfterEdit(k),
                           CHOOSE i \in MatchingWindows(c, o) :
                               \A h \in MatchingWindows(c, o) : i <= h)

\* C23: an edit whose old text does not occur literally in the working
\* content matches at the windows whose lines equal its lines once trimmed;
\* it is applied at the first of them, the lines of the window are replaced
\* by the lines made from the new text and every other line is kept; with no
\* such window, as when the content has fewer lines than the old text, the
\* edit fails.
C23_Tier2Matching ==
    last.made =>
    \A k \in 1..Len(last.inputs) :
        ~includes(last.inputs[k], normalizeLineEndings(last.edits[k].oldText))
        => Tier2Law(k, last.inputs[k], normalizeLineEndings(last.edits[k].oldText),
                    normalizeLineEndings(last.edits[k].newText))

\* C23 witness: a Tier 2 edit applied at a window that is not the first line,
\* with lines kept before it, and the content changed.
C23_Witness ==
    /\ last.made /\ ~last.threw
    /\ Len(last.inputs) = 1
    /\ last.tiers[1] = 2
    /\ 1 \notin MatchingWindows(last.inputs[1], normalizeLineEndings(last.edits[1].oldText))
    /\ Len(split(last.edits[1].oldText)) >= 2
    /\ last.modified # last.inputs[1]

\* The longest run of whitespace a line starts with, and the line without it.
IndentWidth(line) ==
    CHOOSE w \in 0..Len(line) :
        /\ \A q \in 1..w : isSpace(line[q])
        /\ w < Len(line) => ~isSpace(line[w + 1])

IndentOf(line) == SubSeq(line, 1, IndentWidth(line))

Unindented(line) == SubSeq(line, IndentWidth(line) + 1, Len(line))

\* Line j of the replacement C24 describes, for old lines ol, new lines nl and
\* the first matched content line first (j counts from 1).
Reindented(ol, nl, first1, j) ==
    IF j = 1 THEN IndentOf(first1) \o Unindented(nl[1])
    ELSE IF j <= Len(ol) /\ IndentWidth(ol[j]) > 0 /\ IndentWidth(nl[j]) > 0
    THEN IndentOf(first1)
         \o [q \in 1..Max(0, IndentWidth(nl[j]) - IndentWidth(ol[j])) |-> SP]
         \o Unindented(nl[j])
    ELSE nl[j]

\* What C24 says of a Tier 2 edit applied at window i of content lines cl.
ReindentLaw(cl, ol, nl, out, i) ==
    \A j \in 1..Len(nl) : out[i + j - 1] = Reindented(ol, nl, cl[i], j)

\* C24: in the replacement of a Tier 2 edit, the first line is the leading
\* whitespace of the first matched content line and then the first new line
\* without its own; a later line whose old line exists and has leading
\* whitespace, as the new line has, is that base, then as many spaces as the
\* new indentation is wider than the old one (none if it is not), then the new
\* line without its leading whitespace; any other line is the new line as it
\* is.
C24_Tier2Reindentation ==
    last.made =>
    \A k \in 1..Len(last.inputs) :
        last.tiers[k] = 2
        => ReindentLaw(split(last.inputs[k]),
                       split(normalizeLineEndings(last.edits[k].oldText)),
                       split(normalizeLineEndings(last.edits[k].newText)),
                       split(AfterEdit(k)),
                       CHOOSE i \in MatchingWindows(last.inputs[k],
                                        normalizeLineEndings(last.edits[k].oldText)) :
                           \A h \in MatchingWindows(last.inputs[k],
                                        normalizeLineEndings(last.edits[k].oldText)) : i <= h)

\* C24 witness: a Tier 2 edit on an indented block whose second old line and
\* second new line are both indented, the new one deeper, and whose third new
\* line has no old line.
C24_Witness ==
    /\ last.made /\ ~last.threw
    /\ Len(last.inputs) = 1
    /\ last.tiers[1] = 2
    /\ IndentWidth(split(last.inputs[1])[1]) > 0
    /\ Len(split(last.edits[1].oldText)) = 2
    /\ Len(split(last.edits[1].newText)) = 3
    /\ IndentWidth(split(last.edits[1].oldText)[2]) > 0
    /\ IndentWidth(split(last.edits[1].newText)[2])
          > IndentWidth(split(last.edits[1].oldText)[2])
    /\ IndentWidth(split(last.edits[1].newText)[3]) > 0

(***************************************************************************)
(* The order of the search.                                                *)
(***************************************************************************)

\* The entries below directory dirPath in depth-first order: the entries of a
\* directory in listing order, each directory that can be listed followed at
\* once by what is below it.  k is the entry of the listing to go on from.
RECURSIVE Traversal(_, _, _, _)
Traversal(tree, order, dirPath, k) ==
    IF dirPath \notin DOMAIN tree \/ tree[dirPath].kind # "dir" \/ ~tree[dirPath].readable
    THEN <<>>
    ELSE IF k > Len(order[dirPath]) THEN <<>>
    ELSE <<Append(dirPath, order[dirPath][k])>>
         \o Traversal(tree, order, Append(dirPath, order[dirPath][k]), 1)
         \o Traversal(tree, order, dirPath, k + 1)

\* The places in the traversal T of tree that hold a regular file named
\* <className>.java.
MatchesIn(tree, T, className) ==
    {n \in 1..Len(T) : tree[T[n]].kind = "file" /\ T[n][Len(T[n])] = className \o JavaExt}

\* The directories among the first n entries of T, in order, behind root.
DirectoriesUpTo(tree, root, T, n) ==
    <<root>> \o SelectSeq(SubSeq(T, 1, n), LAMBDA q : tree[q].kind = "dir")

\* What C25 says of a search of tree from root whose traversal is T, whose
\* result is r and whose file-system calls are made: with a match, the result
\* is the first match of T, the directories listed are those T reaches before
\* it, and the one file read is the match; with none, every directory is
\* listed and no file is read.
FirstMatchLaw(tree, plat, root, T, M, r, made) ==
    IF M = {}
    THEN /\ ~r.found
         /\ made = [n \in 1..Len(DirectoriesUpTo(tree, root, T, Len(T))) |->
                       readdirCall(DirectoriesUpTo(tree, root, T, Len(T))[n])]
    ELSE /\ r.found
         /\ r.filepath = forwardSlashes(pathRelative(plat, T[first(M)]))
         /\ r.content = tree[T[first(M)]].content
         /\ made = [n \in 1..Len(DirectoriesUpTo(tree, root, T, first(M))) |->
                       readdirCall(DirectoriesUpTo(tree, root, T, first(M))[n])]
                   \o <<readFileCall(T[first(M)])>>

\* C25: the search returns the file named <className>.java that a depth-first
\* traversal in listing order reaches first, and once it is found no further
\* directory is listed and no further file is read.
C25_FirstMatchInTraversalOrder ==
    (/\ located.made /\ ~located.outcome.threw
     /\ ResolvedRoot.path \in DOMAIN located.before)
    => FirstMatchLaw(located.before, platform, ResolvedRoot.path,
                     Traversal(located.before, located.order, ResolvedRoot.path, 1),
                     MatchesIn(located.before,
                               Traversal(located.before, located.order, ResolvedRoot.path, 1),
                               located.args.className),
                     located.outcome.json,
                     searchCalls(located.before, located.order, ResolvedRoot.path,
                                 located.args.className))

\* C25 witness: two files of the name below the search directory, the one
\* deeper in the tree reached first because its directory is listed before
\* the other file, and returned.
C25_Witness ==
    /\ located.made /\ ~located.outcome.threw
    /\ ResolvedRoot.path \in DOMAIN located.before
    /\ Cardinality(MatchesIn(located.before,
           Traversal(located.before, located.order, ResolvedRoot.path, 1),
           located.args.className)) = 2
    /\ located.outcome.json.found
    /\ \E q \in TargetFiles :
          /\ Len(q) < Len(resolveUnderProject(platform, located.outcome.json.filepath))
          /\ fs[q].content # located.outcome.json.content

(***************************************************************************)
(* The class file create_java_class writes.                                *)
(***************************************************************************)

\* The number of places of text that hold character c.
CountOf(text, c) == Cardinality({q \in 1..Len(text) : text[q] = c})

\* The line that declares package packagePath.
PackageLine(packagePath) == KwPackage \o <<SP>> \o packagePath \o <<";", NL>>

\* The words that declare the public class className.
ClassWords(className) ==
    <<"p", "u", "b", "l", "i", "c", SP>> \o KwClass \o <<SP>> \o className

\* What C30 says of the content written for className and packagePath.
WellFormedClass(content, className, packagePath) ==
    /\ (packagePath # <<>>) = hasAt(content, 1, PackageLine(packagePath))
    /\ packagePath = <<>> => ~includes(content, KwPackage)
    /\ includes(content, ClassWords(className))
    /\ CountOf(content, "{") = 1
    /\ CountOf(content, "}") = 1
    /\ ~validateContent(content, className, packagePath)

\* C30: the file a successful create_java_class wrote holds the package line
\* exactly when a package is given, then the declaration of the public class
\* with one opening and one closing brace, and the validation of
\* class_rewrite_full accepts it for the same class name and package.
C30_CreatedClassWellFormed ==
    \A k \in 1..Len(created) :
        (~created[k].outcome.threw /\ created[k].outcome.json.success)
        => WellFormedClass(created[k].after[createdFile(created[k].args)].content,
                           created[k].args.className, created[k].args.packagePath)

(***************************************************************************)
(* The class tools built on the locator: create_java_class (part_007), the *)
(* patch tools that hand the located file to applyFileEdits, and the tools *)
(* that insert text.  A path above the project root starts with the name   *)
(* "..", and a relative path handed to fs is taken from the working        *)
(* directory of the server process.                                        *)
(***************************************************************************)
DOTDOT == <<".", ".">>

\* path.normalize on a list of names: "." and the empty name go, ".." takes
\* the name before it away, or stays when there is none to take.
RECURSIVE normalizeNames(_, _, _)
normalizeNames(stack, names, k) ==
    IF k > Len(names) THEN stack
    ELSE IF names[k] = <<>> \/ names[k] = <<".">>
    THEN normalizeNames(stack, names, k + 1)
    ELSE IF names[k] = DOTDOT /\ stack # <<>> /\ stack[Len(stack)] # DOTDOT
    THEN normalizeNames(SubSeq(stack, 1, Len(stack) - 1), names, k + 1)
    ELSE normalizeNames(Append(stack, names[k]), names, k + 1)

\* path.join(dir, str): the path that str names from directory dir.
joinUnder(plat, dir, str) ==
    normalizeNames(<<>>, dir \o resolveUnderProject(plat, str), 1)

\* path lies inside the project root.
Inside(path) == path = <<>> \/ path[1] # DOTDOT

\* dir is a directory: one of the tree, or one above the project root, which
\* exists whatever the project holds.
isDirectory(tree, dir) ==
    \/ dir \in DOMAIN tree /\ tree[dir].kind = "dir"
    \/ dir # <<>> /\ \A k \in 1..Len(dir) : dir[k] = DOTDOT

\* fs.writeFile(path, data) on any path: it fails when the directory of the
\* path is missing or the path names a directory.
writeAt(tree, path, data) ==
    IF \/ path = <<>>
       \/ ~isDirectory(tree, SubSeq(path, 1, Len(path) - 1))
       \/ isDirectory(tree, path)
       \/ path \in DOMAIN tree /\ tree[path].kind # "file"
    THEN [threw |-> TRUE, tree |-> tree]
    ELSE [threw |-> FALSE, tree |-> writeFile(tree, path, data)]

\* The content createJavaClass writes (part_007 lines 114-117).
createdContent(className, packagePath) ==
    (IF packagePath # <<>>
     THEN KwPackage \o <<SP>> \o packagePath \o <<";", NL, NL>>
     ELSE <<>>)
    \o <<"p", "u", "b", "l", "i", "c", SP>> \o KwClass \o <<SP>> \o className
    \o <<SP, "{", NL, NL, "}">>

\* What a tool leaves: whether it threw and with what code, what it returned,
\* the path it handed to fs to read or write, and the tree afterwards.
toolThrew(code, tree, addressed) ==
    [threw |-> TRUE, code |-> code, returned |-> <<>>, success |-> FALSE,
     addressed |-> addressed, tree |-> tree]

toolReturned(success, returned, tree, addressed) ==
    [threw |-> FALSE, code |-> "none", returned |-> returned, success |-> success,
     addressed |-> addressed, tree |-> tree]

\* No path was handed to fs.
NoPath == <<<<"none">>>>

\* createJavaClass after fs.writeFile gave written (part_007 lines 120-130).
createWritten(tree, plat, filePath, written) ==
    IF written.threw THEN toolReturned(FALSE, <<>>, tree, filePath)
    ELSE toolReturned(TRUE, forwardSlashes(pathRelative(plat, filePath)),
                      written.tree, filePath)

\* createJavaClass once the directory is made (part_007 lines 100-125).
createFile(tree, plat, args, filePath) ==
    IF exists(tree, filePath) THEN toolReturned(FALSE, <<>>, tree, filePath)
    ELSE createWritten(tree, plat, filePath,
             writeAt(tree, filePath, createdContent(args.className, args.packagePath)))

\* createJavaClass after fs.mkdir gave made (part_007 lines 98-131).
createMade(plat, args, searchPath, made) ==
    IF made.threw THEN toolReturned(FALSE, <<>>, made.tree, NoPath)
    ELSE createFile(made.tree, plat, args,
                    joinUnder(plat, searchPath, args.className \o JavaExt))

\* createJavaClass once the directory is resolved (part_007 lines 95-131): an
\* error below the try is returned as success = false, not thrown.
createResolved(tree, plat, args, root) ==
    IF root.threw THEN toolReturned(FALSE, <<>>, tree, NoPath)
    ELSE createMade(plat, args, root.path, mkdir(tree, root.path))

\* createJavaClass (part_007 lines 86-132); the arguments are parsed with
\* ClassLocationSchema (line 90).
createJavaClass(tree, plat, args) ==
    IF ~ClassLocationSchema(args) THEN toolThrew("InvalidRequest", tree, NoPath)
    ELSE createResolved(tree, plat, args,
                        getJavaRootPath(args.sourceType, args.packagePath))

\* applyFileEdits(filePath, edits, dryRun) on the file at target of tree, once
\* the engine gave e: the throw, or the diff and the file written back.
editsApplied(tree, target, e) ==
    IF e.threw THEN toolThrew("InternalError", tree, target)
    ELSE toolReturned(TRUE, e.returned, writeFile(tree, target, e.disk), target)

\* applyFileEdits(filePath, edits, dryRun) on the path target: fs.readFile
\* fails on a path that names no regular file.
editFileAt(tree, target, edits, dryRun) ==
    IF target \notin DOMAIN tree \/ tree[target].kind # "file"
    THEN toolThrew("InternalError", tree, target)
    ELSE editsApplied(tree, target, applyFileEdits(tree[target].content, edits, dryRun))

\* The path a tool hands to applyFileEdits: path.join(projectPath,
\* result.filepath) when joined, result.filepath itself otherwise, which fs
\* takes from the working directory cwd.
addressedPath(plat, cwd, filepath, joined) ==
    IF joined THEN joinUnder(plat, <<>>, filepath)
    ELSE joinUnder(plat, cwd, filepath)

\* A patch tool once the search gave r.
patchFound(tree, plat, cwd, edits, dryRun, joined, r) ==
    IF r.threw THEN toolThrew("InternalError", tree, NoPath)
    ELSE IF ~r.result.found \/ r.result.filepath = <<>>
    THEN toolThrew("InvalidRequest", tree, NoPath)
    ELSE editFileAt(tree, addressedPath(plat, cwd, r.result.filepath, joined),
                    edits, dryRun)

\* A patch tool once the directory is resolved.
patchResolved(tree, plat, order, cwd, args, edits, dryRun, joined, root) ==
    IF root.threw THEN toolThrew("InternalError", tree, NoPath)
    ELSE patchFound(tree, plat, cwd, edits, dryRun, joined,
                    searchInDirectory(tree, plat, order, root.path, args.className))

\* The body the five patch tools share: the schema, getJavaRootPath,
\* searchInDirectory, and applyFileEdits on the file found.
patchTool(tree, plat, order, cwd, args, edits, dryRun, joined) ==
    IF ~ClassLocationSchema(args) THEN toolThrew("InvalidRequest", tree, NoPath)
    ELSE patchResolved(tree, plat, order, cwd, args, edits, dryRun, joined,
                       getJavaRootPath(args.sourceType, args.packagePath))

\* classReplaceContent (classReplaceContent.ts lines 38-62).
classReplaceContent(tree, plat, order, cwd, args) ==
    patchTool(tree, plat, order, cwd, args, args.edits, args.dryRun, TRUE)

\* rewriteClassHeader (classRewriteHeader.ts lines 33-54).
rewriteClassHeader(tree, plat, order, cwd, args) ==
    patchTool(tree, plat, order, cwd, args, args.edits, args.dryRun, TRUE)

\* replaceClassBody (part_007 lines 163-183): result.filepath goes to
\* applyFileEdits as it is (line 178).
replaceClassBody(tree, plat, order, cwd, args) ==
    patchTool(tree, plat, order, cwd, args, args.edits, args.dryRun, FALSE)

\* The edit of the two delete tools: targetContent replaced by nothing.
deletion(targetContent) == <<[oldText |-> targetContent, newText |-> <<>>]>>

\* deleteClassBody (part_007 lines 27-52): result.filepath goes to
\* applyFileEdits as it is (line 47).
deleteClassBody(tree, plat, order, cwd, args) ==
    IF Len(args.targetContent) < 1 THEN toolThrew("InvalidRequest", tree, NoPath)
    ELSE patchTool(tree, plat, order, cwd, args, deletion(args.targetContent),
                   args.dryRun, FALSE)

\* classDeleteContent (part_010 lines 33-62).
classDeleteContent(tree, plat, order, cwd, args) ==
    IF Len(args.targetContent) < 1 THEN toolThrew("InvalidRequest", tree, NoPath)
    ELSE patchTool(tree, plat, order, cwd, args, deletion(args.targetContent),
                   args.dryRun, TRUE)

(***************************************************************************)
(* class_add_content (part_003).  Offsets are those of JavaScript: the     *)
(* first character of a string is at offset 0.                             *)
(***************************************************************************)
KwImport == <<"i", "m", "p", "o", "r", "t">>

\* s.lastIndexOf(sub) + 1: the position of the last occurrence, 0 when there
\* is none.
lastIndexOf(s, sub) ==
    IF \E i \in 1..Len(s) : OccursAt(s, sub, i)
    THEN CHOOSE i \in 1..Len(s) :
            /\ OccursAt(s, sub, i)
            /\ \A h \in 1..Len(s) : OccursAt(s, sub, h) => h <= i
    ELSE 0

\* /^import\s+[^;]+;/m at position p: the position of the semicolon that ends
\* the match, 0 when there is no match at p.  After the word stand one
\* whitespace character and at least one more character before the first
\* semicolon.
importEndAt(content, p) ==
    IF /\ (p = 1 \/ content[p - 1] \in LineTerminator)
       /\ hasAt(content, p, KwImport)
       /\ p + 6 <= Len(content)
       /\ content[p + 6] \in Space
       /\ first({q \in (p + 7)..Len(content) : content[q] = ";"}) >= p + 8
    THEN first({q \in (p + 7)..Len(content) : content[q] = ";"})
    ELSE 0

\* The last element of content.match(/^import\s+[^;]+;/gm), the matches being
\* taken from position from on one after the other; found is the last one so far.
RECURSIVE lastImportFrom(_, _, _)
lastImportAfter(content, p, found) ==
    IF p = 0 THEN found
    ELSE lastImportFrom(content, importEndAt(content, p) + 1,
                        SubSeq(content, p, importEndAt(content, p)))

lastImportFrom(content, from, found) ==
    lastImportAfter(content,
                    first({p \in from..Len(content) : importEndAt(content, p) # 0}),
                    found)

\* The offset for injection point 'import' (part_003 lines 33-41).
importPoint(content, lastImport) ==
    IF lastImport = NoMatch
    THEN (IF indexOf(content, <<";">>) # 0 THEN indexOf(content, <<";">>) ELSE 0)
    ELSE lastIndexOf(content, lastImport) - 1 + Len(lastImport)

\* /\bclass\s+[A-Za-z_][A-Za-z0-9_]*/ matches at position p.
classDeclaredAt(content, p) ==
    /\ (p = 1 \/ content[p - 1] \notin WordChar)
    /\ hasAt(content, p, KwClass)
    /\ p + 5 <= Len(content)
    /\ content[p + 5] \in Space
    /\ scanWhile(content, p + 5, Space) <= Len(content)
    /\ content[scanWhile(content, p + 5, Space)] \in IdentStart

\* The position of the match of content.match(/\bclass\s+.../), 0 for null.
classDeclared(content) ==
    first({p \in 1..Len(content) : classDeclaredAt(content, p)})

\* An offset findInjectionPoint returns, or its throw.
pointAt(offset) == [threw |-> FALSE, offset |-> offset]
pointMissing == [threw |-> TRUE, offset |-> 0]

\* The offset for injection point 'annotation' (part_003 lines 43-49):
\* !classMatch.index holds for a match at offset 0 as well.
annotationPoint(content) ==
    IF classDeclared(content) = 0 \/ classDeclared(content) - 1 = 0 THEN pointMissing
    ELSE pointAt(classDeclared(content) - 1)

\* findInjectionPoint (part_003 lines 32-60).
findInjectionPoint(content, point) ==
    IF point = "import" THEN pointAt(importPoint(content, lastImportFrom(content, 1, NoMatch)))
    ELSE IF point = "annotation" THEN annotationPoint(content)
    ELSE IF lastIndexOf(content, <<"}">>) = 0 THEN pointMissing
    ELSE pointAt(lastIndexOf(content, <<"}">>) - 1)

\* formattedContent (part_003 lines 84-86).
formattedContent(content, point) ==
    IF point = "class_content" THEN <<NL, NL>> \o content \o <<NL>>
    ELSE <<NL>> \o content \o <<NL, NL>>

\* newContent (part_003 line 88).
injected(fileContent, offset, text) ==
    SubSeq(fileContent, 1, offset) \o text \o SubSeq(fileContent, offset + 1, Len(fileContent))

\* ClassAddContentSchema (part_003 lines 12-17).
ClassAddContentSchema(args) ==
    /\ ClassLocationSchema(args)
    /\ Len(args.content) >= 1
    /\ args.injectionPoint \in {"import", "annotation", "class_content"}

\* classAddContent once the injection point is known (part_003 lines 83-96).
addAtPoint(tree, plat, args, result, point) ==
    IF point.threw THEN toolThrew("InternalError", tree, NoPath)
    ELSE toolReturned(TRUE, result.filepath,
             writeFile(tree, joinUnder(plat, <<>>, result.filepath),
                       injected(result.content, point.offset,
                                formattedContent(args.content, args.injectionPoint))),
             joinUnder(plat, <<>>, result.filepath))

\* classAddContent once the search gave r (part_003 lines 77-96).
addFound(tree, plat, args, r) ==
    IF r.threw THEN toolThrew("InternalError", tree, NoPath)
    ELSE IF ~r.result.found \/ r.result.filepath = <<>> \/ r.result.content = <<>>
    THEN toolThrew("InvalidRequest", tree, NoPath)
    ELSE addAtPoint(tree, plat, args, r.result,
                    findInjectionPoint(r.result.content, args.injectionPoint))

\* classAddContent once the directory is resolved (part_003 lines 74-96).
addResolved(tree, plat, order, args, root) ==
    IF root.threw THEN toolThrew("InternalError", tree, NoPath)
    ELSE addFound(tree, plat, args,
                  searchInDirectory(tree, plat, order, root.path, args.className))

\* classAddContent (part_003 lines 62-102).
classAddContent(tree, plat, order, args) ==
    IF ~ClassAddContentSchema(args) THEN toolThrew("InvalidRequest", tree, NoPath)
    ELSE addResolved(tree, plat, order, args,
                     getJavaRootPath(args.sourceType, args.packagePath))

(***************************************************************************)
(* The class tools as a state machine: one call of a tool on a project     *)
(* tree by a server whose working directory is cwd, and after a            *)
(* create_java_class call one locate_java_class call with its arguments.   *)
(***************************************************************************)
Public == <<"p", "u", "b", "l", "i", "c">>

\* The Java files of the trees: a class with a modifier, a class at offset 0,
\* a class after a package line, and a class after an import line.
PublicClass == Public \o <<SP>> \o KwClass \o <<SP, "A", SP, "{", NL, "}">>
PlainClass == KwClass \o <<SP, "A", SP, "{", NL, "}">>
PackagedClass == KwPackage \o <<SP, "p", ";", NL>> \o PlainClass
ImportingClass == KwImport \o <<SP, "x", ";", NL>> \o Public \o <<SP>> \o PlainClass

JavaContents == {PublicClass, PlainClass, PackagedClass, ImportingClass}

ToolDirPool == {<<SRC>>, <<SRC, SRC>>, <<SRC, MAIN, JAVA>>}

ToolFeaturePool ==
    [t : {"file"}, dir : ToolDirPool, name : {ClassA \o JavaExt}, content : JavaContents]
    \cup [t : {"dir"}, dir : ToolDirPool, name : {<<>>}, content : {<<>>}]

ToolTreeOf(S) ==
    [q \in DirsOf(S) \cup LeavesOf(S) |->
        IF q \in DirsOf(S)
        THEN [kind |-> "dir", readable |-> TRUE, content |-> <<>>]
        ELSE [kind |-> "file", readable |-> TRUE,
              content |-> (CHOOSE f \in S : f.t = "file" /\ Append(f.dir, f.name) = q).content]]

ToolTrees ==
    {ToolTreeOf(S) : S \in {S \in SubsetsUpTo(ToolFeaturePool, MaxEntries) : WellFormed(S)}}

\* A class name that holds path separators.
Escaping == DOTDOT \o <<SLASH>> \o DOTDOT \o <<SLASH>> \o ClassA

ToolArgs ==
    {[className |-> ClassA, sourceType |-> "undefined", packagePath |-> <<>>],
     [className |-> ClassA, sourceType |-> "source", packagePath |-> <<>>],
     [className |-> ClassA, sourceType |-> "source", packagePath |-> PKG],
     [className |-> Escaping, sourceType |-> "undefined", packagePath |-> <<>>]}

\* The edits of a patch request: one that matches the files and one that does not.
ToolEdits ==
    {<<[oldText |-> KwClass, newText |-> <<"e", "n", "u", "m">>]>>,
     <<[oldText |-> <<"x", "x">>, newText |-> <<"y">>]>>}

Targets == {KwClass, <<>>}

\* The working directories of the server process, from the project root.
WorkingDirectories == {<<>>, <<SRC>>}

InitTools ==
    /\ platform \in {"posix", "win32"}
    /\ fs \in ToolTrees
    /\ located = NoLocate
    /\ created = <<>>
    /\ rewritten = NoRewrite
    /\ tool = NoTool
    /\ inflight = NoCalls
    /\ universe = "scenario"
    /\ disk = <<>>
    /\ calls = 0
    /\ last = NoCall
    /\ prev = NoCall

\* A call of the tool name completes with outcome r.
ToolCompletes(name, args, order, cwd, r) ==
    /\ ~tool.made
    /\ tool' = [made |-> TRUE, name |-> name, args |-> args, order |-> order,
                cwd |-> cwd, before |-> fs, outcome |-> r]
    /\ fs' = r.tree
    /\ UNCHANGED <<platform, located, created, rewritten, patchVars>>

\* The arguments of a patch request.
withEdits(args, edits, dryRun) ==
    [className |-> args.className, sourceType |-> args.sourceType,
     packagePath |-> args.packagePath, edits |-> edits, dryRun |-> dryRun]

\* The arguments of a delete request.
withTarget(args, targetContent, dryRun) ==
    [className |-> args.className, sourceType |-> args.sourceType,
     packagePath |-> args.packagePath, targetContent |-> targetContent,
     dryRun |-> dryRun]

\* The arguments of a class_add_content request.
withContent(args, content, injectionPoint) ==
    [className |-> args.className, sourceType |-> args.sourceType,
     packagePath |-> args.packagePath, content |-> content,
     injectionPoint |-> injectionPoint]

CreateJavaClass(args, cwd) ==
    ToolCompletes("create_java_class", args, <<>>, cwd,
                  createJavaClass(fs, platform, args))

ClassReplaceContent(args, order, cwd) ==
    ToolCompletes("class_replace_content", args, order, cwd,
                  classReplaceContent(fs, platform, order, cwd, args))

RewriteClassHeader(args, order, cwd) ==
    ToolCompletes("class_rewrite_header", args, order, cwd,
                  rewriteClassHeader(fs, platform, order, cwd, args))

ReplaceClassBody(args, order, cwd) ==
    ToolCompletes("class_replace_body", args, order, cwd,
                  replaceClassBody(fs, platform, order, cwd, args))

DeleteClassBody(args, order, cwd) ==
    ToolCompletes("class_delete_body", args, order, cwd,
                  deleteClassBody(fs, platform, order, cwd, args))

ClassDeleteContent(args, order, cwd) ==
    ToolCompletes("class_delete_content", args, order, cwd,
                  classDeleteContent(fs, platform, order, cwd, args))

ClassAddContent(args, order, cwd) ==
    ToolCompletes("class_add_content", args, order, cwd,
                  classAddContent(fs, platform, order, args))

\* The locate_java_class call after a create_java_class call, with the
\* arguments of that call.
LocateCreated(order) ==
    /\ tool.made
    /\ tool.name = "create_java_class"
    /\ ~located.made
    /\ located' = [made |-> TRUE, args |-> tool.args, order |-> order, before |-> fs,
                   outcome |-> handleLocateJavaClass(fs, platform, order, tool.args)]
    /\ UNCHANGED <<platform, fs, created, rewritten, tool, patchVars>>

NextTools ==
    \/ \E args \in ToolArgs, cwd \in WorkingDirectories : CreateJavaClass(args, cwd)
    \/ \E args \in ToolArgs, edits \in ToolEdits, dryRun \in BOOLEAN,
          order \in Orders(fs), cwd \in WorkingDirectories :
          ClassReplaceContent(withEdits(args, edits, dryRun), order, cwd)
    \/ \E args \in ToolArgs, edits \in ToolEdits, dryRun \in BOOLEAN,
          order \in Orders(fs), cwd \in WorkingDirectories :
          RewriteClassHeader(withEdits(args, edits, dryRun), order, cwd)
    \/ \E args \in ToolArgs, edits \in ToolEdits, dryRun \in BOOLEAN,
          order \in Orders(fs), cwd \in WorkingDirectories :
          ReplaceClassBody(withEdits(args, edits, dryRun), order, cwd)
    \/ \E args \in ToolArgs, targetContent \in Targets, dryRun \in BOOLEAN,
          order \in Orders(fs), cwd \in WorkingDirectories :
          DeleteClassBody(withTarget(args, targetContent, dryRun), order, cwd)
    \/ \E args \in ToolArgs, targetContent \in Targets, dryRun \in BOOLEAN,
          order \in Orders(fs), cwd \in WorkingDirectories :
          ClassDeleteContent(withTarget(args, targetContent, dryRun), order, cwd)
    \/ \E args \in ToolArgs, point \in {"import", "annotation", "class_content"},
          order \in Orders(fs), cwd \in WorkingDirectories :
          ClassAddContent(withContent(args, <<"@", "X">>, point), order, cwd)
    \/ \E order \in Orders(fs) : LocateCreated(order)

SpecTools == InitTools /\ [][NextTools]_vars

(***************************************************************************)
(* Properties of the class tools.                                          *)
(***************************************************************************)

\* The words that can stand before the word class in a declaration.
Modifiers ==
    {Public, <<"a", "b", "s", "t", "r", "a", "c", "t">>, <<"f", "i", "n", "a", "l">>}

\* The position where the declaration whose word class stands at p begins:
\* that of the first of the modifiers before the word.
RECURSIVE declarationStart(_, _)
declarationStart(content, p) ==
    IF \E m \in Modifiers : p - Len(m) - 1 >= 1 /\ hasAt(content, p - Len(m) - 1, m \o <<SP>>)
    THEN declarationStart(content,
             p - 1 - Len(CHOOSE m \in Modifiers :
                            p - Len(m) - 1 >= 1 /\ hasAt(content, p - Len(m) - 1, m \o <<SP>>)))
    ELSE p

\* The file the last call of class_add_content found, before the call.
AddTarget == joinUnder(platform, <<>>, tool.outcome.returned)

\* The last call was class_add_content at 'annotation' for a file that holds
\* the class declaration original.
AnnotatedFile(original) ==
    /\ tool.made
    /\ tool.name = "class_add_content"
    /\ tool.args.injectionPoint = "annotation"
    /\ searchInDirectory(tool.before, platform, tool.order,
                         getJavaRootPath(tool.args.sourceType, tool.args.packagePath).path,
                         tool.args.className).result.found
    /\ searchInDirectory(tool.before, platform, tool.order,
                         getJavaRootPath(tool.args.sourceType, tool.args.packagePath).path,
                         tool.args.className).result.content = original
    /\ classDeclared(original) # 0

\* C26: class_add_content at 'annotation' on a file with a class declaration,
\* also one at offset 0, succeeds and writes the file with the inserted text
\* before the whole declaration, its modifiers included: what stood before the
\* declaration, the inserted text, and the declaration with what follows it.
C26_AnnotationBeforeDeclaration ==
    \A original \in JavaContents :
        AnnotatedFile(original)
        => /\ ~tool.outcome.threw
           /\ fs[AddTarget].content
                = injected(original,
                           declarationStart(original, classDeclared(original)) - 1,
                           formattedContent(tool.args.content, "annotation"))

\* The part of C26 the code keeps: when the call succeeds, the inserted text
\* stands right before the word class and removing it gives the file back.
C26_BeforeClassWord ==
    \A original \in JavaContents :
        (AnnotatedFile(original) /\ ~tool.outcome.threw)
        => fs[AddTarget].content
             = injected(original, classDeclared(original) - 1,
                        formattedContent(tool.args.content, "annotation"))

PatchTools ==
    {"class_replace_content", "class_rewrite_header", "class_replace_body",
     "class_delete_body", "class_delete_content"}

\* What the locator returned to the last call of a tool.
ToolSearch ==
    searchInDirectory(tool.before, platform, tool.order,
                      getJavaRootPath(tool.args.sourceType, tool.args.packagePath).path,
                      tool.args.className)

\* The last call was one of the tools of names and handed a file to the
\* patch engine.
PatchedBy(names) ==
    /\ tool.made
    /\ tool.name \in names
    /\ tool.outcome.addressed # NoPath

\* The last call read and wrote the file the locator returned and no other.
AddressedAsLocated ==
    /\ tool.outcome.addressed = joinUnder(platform, <<>>, ToolSearch.result.filepath)
    /\ \A q \in (DOMAIN fs \cup DOMAIN tool.before) \ {tool.outcome.addressed} :
          q \in DOMAIN fs /\ q \in DOMAIN tool.before /\ fs[q] = tool.before[q]

\* C27: every patch tool reads and writes the file the locator returned, the
\* project root joined with the returned path, whatever the working directory
\* of the server process is.
C27_PatchToolsAddressLocatedFile ==
    PatchedBy(PatchTools) => AddressedAsLocated

\* The part of C27 the code keeps: the three tools that join the path.
C27_JoiningTools ==
    PatchedBy({"class_replace_content", "class_rewrite_header", "class_delete_content"})
    => AddressedAsLocated

\* The two other tools address the located file when the server runs in the
\* project root.
C27_FromProjectRoot ==
    (PatchedBy({"class_replace_body", "class_delete_body"}) /\ tool.cwd = <<>>)
    => AddressedAsLocated

\* The paths the last call of a tool created or wrote.
WrittenPaths ==
    {q \in DOMAIN fs : q \notin DOMAIN tool.before \/ fs[q] # tool.before[q]}

\* C28: for a request the schemas accept, every file a tool creates or writes
\* lies inside the project root.
C28_WriteConfinement ==
    (tool.made /\ ClassLocationSchema(tool.args))
    => \A q \in WrittenPaths : Inside(q)

\* The part of C28 the code keeps: the tools that write the file the search
\* found stay inside the project root, the class name matching an entry name
\* of a listing only.
C28_LocatingToolsConfined ==
    (tool.made /\ ClassLocationSchema(tool.args) /\ tool.name # "create_java_class")
    => \A q \in WrittenPaths : Inside(q)

\* create_java_class succeeded and locate_java_class was called after it with
\* the same arguments.
LocatedAfterCreate ==
    /\ tool.made
    /\ tool.name = "create_java_class"
    /\ ~tool.outcome.threw
    /\ tool.outcome.success
    /\ located.made

\* The locate call returned the file the create call made, with its content.
RoundTrip ==
    /\ ~located.outcome.threw
    /\ located.outcome.json.found
    /\ located.outcome.json.filepath = tool.outcome.returned
    /\ located.outcome.json.content
         = createdContent(tool.args.className, tool.args.packagePath)

\* C29: after create_java_class succeeded and returned filepath f,
\* locate_java_class with the same arguments returns found = true, filepath f
\* and the content created, whatever else lies under the resolved directory.
C29_CreateLocateRoundTrip ==
    LocatedAfterCreate => RoundTrip

\* The files named as the class below the resolved directory before the
\* create call.
Namesakes ==
    {q \in DOMAIN tool.before :
        /\ tool.before[q].kind = "file"
        /\ q[Len(q)] = tool.args.className \o JavaExt
        /\ IsAncestorOrSelf(getJavaRootPath(tool.args.sourceType,
                                            tool.args.packagePath).path, q)}

\* The part of C29 the code keeps: the round trip of a class name without
\* path separators when no subdirectory of the resolved directory holds a
\* file of the same name.
C29_RoundTripWithoutNamesake ==
    (/\ LocatedAfterCreate
     /\ Namesakes = {}
     /\ ~includes(tool.args.className, <<SLASH>>))
    => RoundTrip

(***************************************************************************)
(* Two applyFileEdits calls on one file with no lock between them.  A call *)
(* first reads the file (line 36); what follows the read runs without      *)
(* interruption up to the write (line 94), which replaces the whole file.  *)
(* Another call can read or write between the two steps.                   *)
(***************************************************************************)
RaceAlphabet == {"a", "b"}

RaceContents == Str(RaceAlphabet, MaxContentLen)

RaceEdits == EditsOver(RaceAlphabet, MaxBatchSize - 1)

InitRace ==
    /\ universe = "scenario"
    /\ disk \in RaceContents
    /\ calls = 0
    /\ last = NoCall
    /\ prev = NoCall
    /\ platform = "posix"
    /\ fs = EmptyTree
    /\ located = NoLocate
    /\ created = <<>>
    /\ rewritten = NoRewrite
    /\ tool = NoTool
    /\ inflight = NoCalls

\* The call after fs.readFile gave onDisk (line 36): seen is the number of
\* calls that had completed by then.
afterRead(edits, onDisk, seen) ==
    [pc |-> "read", edits |-> edits, content |-> onDisk, seen |-> seen, done |-> 0]

\* The call after it returned or threw as the done-th call to complete.
afterReturn(call, r, done) ==
    [pc |-> IF r.threw THEN "threw" ELSE "returned", edits |-> call.edits,
     content |-> call.content, seen |-> call.seen, done |-> done]

\* Faulty variant of editsOfRead: the edits are applied to the file as it is
\* at the write, the read and the write being one step.
editsOfRead_atomic(call, onDisk) ==
    applyFileEdits(onDisk, call.edits, FALSE)

\* Lines 38-97 of a call that is no dry run: the edits are applied to the
\* content the call read, whatever the file holds by now.
editsOfRead(call, onDisk) ==
    applyFileEdits(call.content, call.edits, FALSE)

\* The file after the write of a call (lines 93-95): the call that throws
\* writes nothing, the other one replaces what the file holds.
fileAfter(onDisk, r) == IF r.threw THEN onDisk ELSE r.disk

\* Call c begins and reads the file; call 1 is the one that reads first.
ReadFile(c, edits) ==
    /\ inflight[c].pc = "idle"
    /\ c = 2 => inflight[1].pc # "idle"
    /\ inflight' = [inflight EXCEPT ![c] = afterRead(edits, disk, calls)]
    /\ UNCHANGED <<universe, disk, calls, last, prev, locatorVars>>

\* Call c ends with outcome r.
Returns(c, r) ==
    /\ disk' = fileAfter(disk, r)
    /\ last' = CallRecord(inflight[c].edits, FALSE, inflight[c].content, r)
    /\ prev' = last
    /\ calls' = calls + 1
    /\ inflight' = [inflight EXCEPT ![c] = afterReturn(inflight[c], r, calls + 1)]
    /\ UNCHANGED <<universe, locatorVars>>

\* Call c applies its edits and writes the file.
WriteFile(c) ==
    /\ inflight[c].pc = "read"
    /\ Returns(c, editsOfRead(inflight[c], disk))

NextRace ==
    \/ \E c \in 1..2, e \in RaceEdits : ReadFile(c, <<e>>)
    \/ \E c \in 1..2 : WriteFile(c)

SpecRace == InitRace /\ [][NextRace]_vars

\* Both calls returned without a throw.
BothReturned == \A c \in 1..2 : inflight[c].pc = "returned"

\* The call that completed as the n-th.
Completed(n) == CHOOSE c \in 1..2 : inflight[c].done = n

\* The calls ran one after the other: the second to complete read the file
\* after the first had written it.
OneAfterTheOther == inflight[Completed(2)].seen = 1

\* The content the edits of call c make of text.
ChangeOf(c, text) == applyFileEdits(text, inflight[c].edits, TRUE).modified

\* The file before the two calls: what the first call to complete read.
Original == inflight[Completed(1)].content

\* The file holds the changes of both calls: those of the second made to the
\* result of the first.
HoldsBothChanges ==
    disk = ChangeOf(Completed(2), ChangeOf(Completed(1), Original))

\* The file holds the change of the last writer made to the original, as if
\* the other call had not been.
HoldsOneChange ==
    disk = ChangeOf(Completed(2), Original)

\* C21: two calls without dry run on one file that both return: when they ran
\* one after the other the file holds both changes, and when the second read
\* before the first wrote, the file holds what the second made of the content
\* it read, the write of the first being replaced.
C21_UnserializedCallsLoseUpdates ==
    BothReturned
    => /\ OneAfterTheOther => HoldsBothChanges
       /\ ~OneAfterTheOther => HoldsOneChange

\* C21 witness: both calls returned, each changes the original on its own,
\* they did not run one after the other, and the file is neither of the two
\* results of running them one after the other: it lacks the change of the
\* call that wrote first.
C21_Witness ==
    /\ BothReturned
    /\ ~OneAfterTheOther
    /\ ChangeOf(1, Original) # Original
    /\ ChangeOf(2, Original) # Original
    /\ disk # ChangeOf(2, ChangeOf(1, Original))
    /\ disk # ChangeOf(1, ChangeOf(2, Original))
    /\ disk = ChangeOf(Completed(2), Original)

====
